---------------------------- MODULE Spec2Model ----------------------------
(***************************************************************************)
(* Verification model of the autonomous snake controller of the Snake      *)
(* game: the grid model (PathfindingUtils), the shortest-path searches     *)
(* (A*, BFS, Greedy, Dijkstra), the Hamiltonian cycle follower and the     *)
(* game store that drives them.                                            *)
(*                                                                         *)
(* A cell is a record [x, y]; a snake is a sequence of cells, head first;  *)
(* the obstacle array is modelled by the set of its cells (the code only   *)
(* tests membership and takes its length, and obstacles are distinct).     *)
(* A search node carries, in place of the parent link, the chain of cells  *)
(* from the start to its parent: a node's chain is only ever read after    *)
(* the parent was closed, and closed nodes are never modified.             *)
(***************************************************************************)
EXTENDS Integers, Sequences, FiniteSets, TLC

VARIABLES
  boardSize, snake, food, obstacles,       \* the snapshot: board side, snake (head first), goal, obstacles
  weight, pc, route,                       \* heuristicWeight, position of the run, result of a search
  strategy, algorithm, shortcutThreshold,  \* which class is driven, its algorithm, config.shortcutThreshold in hundredths
  path, pathIndex,                         \* this.path (lastChosenPathForViz) and this.pathIndex
  cycle, currentCycleIndex,                \* the cycle and the head's index in it
  dir, branch, verdict,                    \* last direction returned, branch that chose it, shortcut checks
  gameStatus, direction, nextDirection, score,  \* the game store
  lastCall, calls,                         \* the last method called, getNextDirection calls since the last update
  config,                                  \* the tunables handed to AlgorithmFactory.createAlgorithm
  heap, driver, stored                     \* cell objects, and the references the driver and the strategy hold

snapshotVars == <<boardSize, snake, food, obstacles>>
strategyVars == <<strategy, algorithm, shortcutThreshold, path, pathIndex, cycle,
                  currentCycleIndex, dir, branch, verdict>>
gameVars     == <<gameStatus, direction, nextDirection, score>>

callVars     == <<lastCall, calls>>
aliasVars    == <<heap, driver, stored>>
otherVars    == <<config, aliasVars>>

vars == <<snapshotVars, weight, pc, route, strategyVars, gameVars, callVars, otherVars>>

\* what findPath returns: null, or a route (a sequence of cells)
Null == [null |-> TRUE, cells |-> << >>]

Route(p) == [null |-> FALSE, cells |-> p]

IsNull(r) == r.null

Pos(px, py) == [x |-> px, y |-> py]

abs(n) == IF n < 0 THEN -n ELSE n

Cells(n) == {Pos(px, py) : px \in 0..(n - 1), py \in 0..(n - 1)}

-----------------------------------------------------------------------------
(* PathfindingUtils: the grid model *)

manhattanDistance(a, b, w) == w * (abs(a.x - b.x) + abs(a.y - b.y))

\* mutant: the obstacle test is left out
isValidPosition_NoObstacles(pos, n, sn, obs) ==
  /\ ~(pos.x < 0 \/ pos.x >= n \/ pos.y < 0 \/ pos.y >= n)
  /\ \A i \in 1..(Len(sn) - 1) : sn[i] # pos

isValidPosition(pos, n, sn, obs) ==
  /\ ~(pos.x < 0 \/ pos.x >= n \/ pos.y < 0 \/ pos.y >= n)
  /\ pos \notin obs
  /\ \A i \in 1..(Len(sn) - 1) : sn[i] # pos

\* the four adjacent cells in the order UP, DOWN, LEFT, RIGHT
Adjacent4(pos) ==
  << Pos(pos.x, pos.y - 1), Pos(pos.x, pos.y + 1),
     Pos(pos.x - 1, pos.y), Pos(pos.x + 1, pos.y) >>

\* mutant: the RIGHT neighbour is left out
getNeighbors_NoRight(pos, n, sn, obs) ==
  SelectSeq(SubSeq(Adjacent4(pos), 1, 3), LAMBDA p : isValidPosition(p, n, sn, obs))

getNeighbors(pos, n, sn, obs) ==
  SelectSeq(Adjacent4(pos), LAMBDA p : isValidPosition(p, n, sn, obs))

\* getDirectionFromPositions with the y axis pointing up, where the code has
\* it pointing down
getDirectionFromPositions_YUp(current, next) ==
  IF next.x < current.x THEN "LEFT"
  ELSE IF next.x > current.x THEN "RIGHT"
  ELSE IF next.y < current.y THEN "DOWN"
  ELSE IF next.y > current.y THEN "UP"
  ELSE "RIGHT"

getDirectionFromPositions(current, next) ==
  IF next.x < current.x THEN "LEFT"
  ELSE IF next.x > current.x THEN "RIGHT"
  ELSE IF next.y < current.y THEN "UP"
  ELSE IF next.y > current.y THEN "DOWN"
  ELSE "RIGHT"

-----------------------------------------------------------------------------
(* Array helpers of the searches *)

\* Array.prototype.sort with comparator a[k] - b[k]: a stable sort, so equal
\* keys keep their order
RECURSIVE InsertByKey(_, _, _)
InsertByKey(sorted, node, k) ==
  IF sorted = << >> THEN << node >>
  ELSE IF sorted[Len(sorted)][k] <= node[k] THEN Append(sorted, node)
  ELSE Append(InsertByKey(SubSeq(sorted, 1, Len(sorted) - 1), node, k),
              sorted[Len(sorted)])

RECURSIVE SortByKey(_, _)
SortByKey(list, k) ==
  IF list = << >> THEN << >>
  ELSE InsertByKey(SortByKey(SubSeq(list, 1, Len(list) - 1), k),
                   list[Len(list)], k)

\* index of the first node of the list on cell p, 0 when there is none
\* (Array.prototype.find)
FindNode(list, p) ==
  IF \E i \in 1..Len(list) : list[i].pos = p
  THEN CHOOSE i \in 1..Len(list) :
         /\ list[i].pos = p
         /\ \A j \in 1..(i - 1) : list[j].pos # p
  ELSE 0

\* walk the parent links to the root, then drop the start cell
ReconstructPath(node) == Route(Tail(Append(node.parent, node.pos)))

Node(p, gv, hv, fv, chain) == [pos |-> p, g |-> gv, h |-> hv, f |-> fv, parent |-> chain]

-----------------------------------------------------------------------------
(* AISnake: the four shortest-path searches *)

\* heuristic that weighs the horizontal distance only, where the code weighs
\* the whole Manhattan distance
heuristic_Skewed(a, b, w) == w * abs(a.x - b.x) + abs(a.y - b.y)

\* mutant: a heuristic that overrates the distance left, four times the
\* Manhattan distance
heuristic_Inflated(a, b, w) == 4 * manhattanDistance(a, b, w)

heuristic(a, b, w) == manhattanDistance(a, b, w)

\* the for loop over the neighbours of the node just closed (A*)
RECURSIVE AStarRelax(_, _, _, _, _, _)
AStarRelax(openList, closedList, current, nbrs, goal, w) ==
  IF nbrs = << >> THEN openList
  ELSE LET neighbor == Head(nbrs)
           gScore   == current.g + 1
           i        == FindNode(openList, neighbor)
           chain    == Append(current.parent, current.pos)
           next     ==
             IF neighbor \in closedList THEN openList
             ELSE IF i = 0
               THEN Append(openList,
                           Node(neighbor, gScore, heuristic(neighbor, goal, w),
                                gScore + heuristic(neighbor, goal, w), chain))
             ELSE IF gScore < openList[i].g
               THEN [openList EXCEPT ![i] =
                       Node(neighbor, gScore, @.h, gScore + @.h, chain)]
             ELSE openList
       IN AStarRelax(next, closedList, current, Tail(nbrs), goal, w)

\* mutant: the node taken from the sorted open list is the last one (pop)
\* instead of the first one (shift)
RECURSIVE AStarLoop_TakesLast(_, _, _, _, _, _, _)
AStarLoop_TakesLast(openList, closedList, goal, n, sn, obs, w) ==
  IF openList = << >> THEN Null
  ELSE LET sorted  == SortByKey(openList, "f")
           current == sorted[Len(sorted)]
           closed  == closedList \cup {current.pos}
       IN IF current.pos = goal THEN ReconstructPath(current)
          ELSE AStarLoop_TakesLast(
                 AStarRelax(SubSeq(sorted, 1, Len(sorted) - 1), closed, current,
                            getNeighbors(current.pos, n, sn, obs), goal, w),
                 closed, goal, n, sn, obs, w)

RECURSIVE AStarLoop(_, _, _, _, _, _, _)
AStarLoop(openList, closedList, goal, n, sn, obs, w) ==
  IF openList = << >> THEN Null
  ELSE LET sorted  == SortByKey(openList, "f")
           current == Head(sorted)
           closed  == closedList \cup {current.pos}
       IN IF current.pos = goal THEN ReconstructPath(current)
          ELSE AStarLoop(AStarRelax(Tail(sorted), closed, current,
                                    getNeighbors(current.pos, n, sn, obs), goal, w),
                         closed, goal, n, sn, obs, w)

findPathAStar(start, goal, n, sn, obs, w) ==
  AStarLoop(<< Node(start, 0, heuristic(start, goal, w), heuristic(start, goal, w), << >>) >>,
            {}, goal, n, sn, obs, w)

\* the for loop over the neighbours of the node just dequeued (BFS)
RECURSIVE BFSVisit(_, _, _)
BFSVisit(qv, current, nbrs) ==
  IF nbrs = << >> THEN qv
  ELSE LET neighbor == Head(nbrs)
           next ==
             IF neighbor \in qv.visited THEN qv
             ELSE [queue   |-> Append(qv.queue,
                                      Node(neighbor, current.g + 1, 0, 0,
                                           Append(current.parent, current.pos))),
                   visited |-> qv.visited \cup {neighbor}]
       IN BFSVisit(next, current, Tail(nbrs))

RECURSIVE BFSLoop(_, _, _, _, _, _)
BFSLoop(queue, visited, goal, n, sn, obs) ==
  IF queue = << >> THEN Null
  ELSE LET current == Head(queue)
       IN IF current.pos = goal THEN ReconstructPath(current)
          ELSE LET qv == BFSVisit([queue |-> Tail(queue), visited |-> visited],
                                  current, getNeighbors(current.pos, n, sn, obs))
               IN BFSLoop(qv.queue, qv.visited, goal, n, sn, obs)

findPathBFS(start, goal, n, sn, obs) ==
  BFSLoop(<< Node(start, 0, 0, 0, << >>) >>, {start}, goal, n, sn, obs)

\* the for loop over the neighbours of the node just extracted (Greedy): every
\* neighbour not yet extracted is pushed, also when it is in the open list
RECURSIVE GreedyPush(_, _, _, _, _, _)
GreedyPush(openList, visited, current, nbrs, goal, w) ==
  IF nbrs = << >> THEN openList
  ELSE LET neighbor == Head(nbrs)
           next ==
             IF neighbor \in visited THEN openList
             ELSE Append(openList,
                         Node(neighbor, current.g + 1, heuristic(neighbor, goal, w),
                              heuristic(neighbor, goal, w),
                              Append(current.parent, current.pos)))
       IN GreedyPush(next, visited, current, Tail(nbrs), goal, w)

\* mutant: the open list is ordered by the cost g instead of the heuristic h
RECURSIVE GreedyLoop_ByCost(_, _, _, _, _, _, _)
GreedyLoop_ByCost(openList, visited, goal, n, sn, obs, w) ==
  IF openList = << >> THEN Null
  ELSE LET sorted  == SortByKey(openList, "g")
           current == Head(sorted)
           seen    == visited \cup {current.pos}
       IN IF current.pos = goal THEN ReconstructPath(current)
          ELSE GreedyLoop_ByCost(GreedyPush(Tail(sorted), seen, current,
                                            getNeighbors(current.pos, n, sn, obs), goal, w),
                                 seen, goal, n, sn, obs, w)

RECURSIVE GreedyLoop(_, _, _, _, _, _, _)
GreedyLoop(openList, visited, goal, n, sn, obs, w) ==
  IF openList = << >> THEN Null
  ELSE LET sorted  == SortByKey(openList, "h")
           current == Head(sorted)
           seen    == visited \cup {current.pos}
       IN IF current.pos = goal THEN ReconstructPath(current)
          ELSE GreedyLoop(GreedyPush(Tail(sorted), seen, current,
                                     getNeighbors(current.pos, n, sn, obs), goal, w),
                          seen, goal, n, sn, obs, w)

findPathGreedy(start, goal, n, sn, obs, w) ==
  GreedyLoop(<< Node(start, 0, heuristic(start, goal, w), heuristic(start, goal, w), << >>) >>,
             {}, goal, n, sn, obs, w)

\* the for loop over the neighbours of the node just closed (Dijkstra)
RECURSIVE DijkstraRelax(_, _, _, _)
DijkstraRelax(openList, closedList, current, nbrs) ==
  IF nbrs = << >> THEN openList
  ELSE LET neighbor == Head(nbrs)
           gScore   == current.g + 1
           i        == FindNode(openList, neighbor)
           chain    == Append(current.parent, current.pos)
           next     ==
             IF neighbor \in closedList THEN openList
             ELSE IF i = 0
               THEN Append(openList, Node(neighbor, gScore, 0, gScore, chain))
             ELSE IF gScore < openList[i].g
               THEN [openList EXCEPT ![i] = Node(neighbor, gScore, @.h, gScore, chain)]
             ELSE openList
       IN DijkstraRelax(next, closedList, current, Tail(nbrs))

RECURSIVE DijkstraLoop(_, _, _, _, _, _)
DijkstraLoop(openList, closedList, goal, n, sn, obs) ==
  IF openList = << >> THEN Null
  ELSE LET sorted  == SortByKey(openList, "g")
           current == Head(sorted)
           closed  == closedList \cup {current.pos}
       IN IF current.pos = goal THEN ReconstructPath(current)
          ELSE DijkstraLoop(DijkstraRelax(Tail(sorted), closed, current,
                                          getNeighbors(current.pos, n, sn, obs)),
                            closed, goal, n, sn, obs)

findPathDijkstra(start, goal, n, sn, obs) ==
  DijkstraLoop(<< Node(start, 0, 0, 0, << >>) >>, {}, goal, n, sn, obs)

\* AStarAlgorithm.findPath: the same search over PathfindingUtils.getNeighbors
AStarAlgorithm_findPath(start, goal, n, sn, obs, w) ==
  findPathAStar(start, goal, n, sn, obs, w)

-----------------------------------------------------------------------------
(* HamiltonianAlgorithm: the cycle follower *)

isCellValidForCycle(px, py, n, obs) ==
  /\ ~(px < 0 \/ px >= n \/ py < 0 \/ py >= n)
  /\ Pos(px, py) \notin obs

\* the cells of row py over the columns from..to, left to right or right to
\* left, obstacles left out
RowCells(py, from, to, leftToRight, n, obs) ==
  LET len == IF to >= from THEN to - from + 1 ELSE 0
      row == [i \in 1..len |->
                IF leftToRight THEN Pos(from + i - 1, py) ELSE Pos(to - i + 1, py)]
  IN SelectSeq(row, LAMBDA c : isCellValidForCycle(c.x, c.y, n, obs))

\* rows y..lastRow in boustrophedon order over the columns 0..lastCol
RECURSIVE Boustrophedon(_, _, _, _, _)
Boustrophedon(py, lastRow, lastCol, n, obs) ==
  IF py > lastRow THEN << >>
  ELSE RowCells(py, 0, lastCol, py % 2 = 0, n, obs)
         \o Boustrophedon(py + 1, lastRow, lastCol, n, obs)

generateEvenSizeCycle(n, obs) == Boustrophedon(0, n - 1, n - 1, n, obs)

generateOddSizeCycle(n, obs) ==
  LET column == SelectSeq([i \in 1..(n - 1) |-> Pos(n - 1, i - 1)],
                          LAMBDA c : isCellValidForCycle(c.x, c.y, n, obs))
  IN Boustrophedon(0, n - 2, n - 2, n, obs)
       \o column
       \o RowCells(n - 1, 0, n - 1, FALSE, n, obs)

generateHamiltonianCycle(n, obs) ==
  IF n % 2 = 0 THEN generateEvenSizeCycle(n, obs) ELSE generateOddSizeCycle(n, obs)

\* the lookup map hamiltonianCycle: has(key) and get(key), indices from 0
CycleHas(cyc, c) == \E i \in 1..Len(cyc) : cyc[i] = c

CycleGet(cyc, c) == (CHOOSE i \in 1..Len(cyc) : cyc[i] = c) - 1

\* this.cycle[index], index from 0
CycleAt(cyc, index) == cyc[index + 1]

isCellSafeForMove(cell, sn, n, obs) ==
  /\ isCellValidForCycle(cell.x, cell.y, n, obs)
  /\ \A i \in 1..(Len(sn) - 1) : sn[i] # cell

\* the for loop over the neighbours of the dequeued entry; an entry of the
\* queue is [pos, path]
RECURSIVE DirectVisit(_, _, _, _, _, _)
DirectVisit(qv, start, entry, nbrs, n, obs) ==
  IF nbrs = << >> THEN qv
  ELSE LET neighbor == Head(nbrs)
           next ==
             IF neighbor \notin qv.visited
                  /\ isCellSafeForMove(neighbor, << start >> \o entry.path, n, obs)
             THEN [queue   |-> Append(qv.queue,
                                      [pos |-> neighbor,
                                       path |-> Append(entry.path, neighbor)]),
                   visited |-> qv.visited \cup {neighbor}]
             ELSE qv
       IN DirectVisit(next, start, entry, Tail(nbrs), n, obs)

RECURSIVE DirectLoop(_, _, _, _, _, _)
DirectLoop(queue, visited, start, foodTarget, n, obs) ==
  IF queue = << >> THEN Null
  ELSE LET entry == Head(queue)
       IN IF entry.pos = foodTarget THEN Route(entry.path)
          ELSE LET qv == DirectVisit([queue |-> Tail(queue), visited |-> visited],
                                     start, entry,
                                     getNeighbors(entry.pos, n, << start >> \o entry.path, obs),
                                     n, obs)
               IN DirectLoop(qv.queue, qv.visited, start, foodTarget, n, obs)

findDirectPathToFood(start, foodTarget, n, obs) ==
  DirectLoop(<< [pos |-> start, path |-> << >>] >>, {start}, start, foodTarget, n, obs)

canReachTailAfterShortcut(foodTarget, n, sn, obs) ==
  IF Len(sn) < 2 THEN TRUE
  ELSE LET tempSnake  == << foodTarget >> \o SubSeq(sn, 1, Len(sn) - 1)
           newHead    == tempSnake[1]
           newTail    == tempSnake[Len(tempSnake)]
           pathToTail == AStarAlgorithm_findPath(newHead, newTail, n, tempSnake, obs, 1)
       IN ~IsNull(pathToTail) /\ Len(pathToTail.cells) > 0

\* config.shortcutThreshold is a number that need not be whole (the factory
\* hands over a fraction): it is held as a whole number of hundredths
Hundredths(v) == 100 * v

\* Math.floor(boardSize * (shortcutThreshold / 100)), threshold in hundredths
maxShortcutDistance(n, threshold) == (n * threshold) \div (100 * 100)

\* isShortcutSafe without "if (fillRatio > 0.7) return false"
isShortcutSafe_NoFillCheck(head, foodTarget, n, sn, obs, threshold) ==
  LET directDistance == abs(head.x - foodTarget.x) + abs(head.y - foodTarget.y)
      maxDistance    == maxShortcutDistance(n, threshold)
      boardCells     == n * n
      snakeLength    == Len(sn)
      remainingSpace == boardCells - (snakeLength + 1) - Cardinality(obs)
  IN IF directDistance = 0 THEN FALSE
     ELSE IF directDistance > maxDistance /\ maxDistance > 0 THEN FALSE
     ELSE IF 5 * remainingSpace < boardCells THEN FALSE
     ELSE canReachTailAfterShortcut(foodTarget, n, sn, obs)

\* isShortcutSafe without the test of directDistance against
\* maxShortcutDistance
isShortcutSafe_NoDistanceCheck(head, foodTarget, n, sn, obs, threshold) ==
  LET directDistance == abs(head.x - foodTarget.x) + abs(head.y - foodTarget.y)
      boardCells     == n * n
      snakeLength    == Len(sn)
      remainingSpace == boardCells - (snakeLength + 1) - Cardinality(obs)
  IN IF directDistance = 0 THEN FALSE
     ELSE IF 10 * snakeLength > 7 * boardCells THEN FALSE
     ELSE IF 5 * remainingSpace < boardCells THEN FALSE
     ELSE canReachTailAfterShortcut(foodTarget, n, sn, obs)

isShortcutSafe(head, foodTarget, n, sn, obs, threshold) ==
  LET directDistance == abs(head.x - foodTarget.x) + abs(head.y - foodTarget.y)
      maxDistance    == maxShortcutDistance(n, threshold)
      boardCells     == n * n
      snakeLength    == Len(sn)
      remainingSpace == boardCells - (snakeLength + 1) - Cardinality(obs)
  IN IF directDistance = 0 THEN FALSE
     ELSE IF directDistance > maxDistance /\ maxDistance > 0 THEN FALSE
     ELSE IF 10 * snakeLength > 7 * boardCells THEN FALSE      \* fillRatio > 0.7
     ELSE IF 5 * remainingSpace < boardCells THEN FALSE        \* < boardCells * 0.20
     ELSE canReachTailAfterShortcut(foodTarget, n, sn, obs)

\* the first step of the shortcut, Null when no shortcut is taken
findShortcutToFood(n, sn, fd, obs, threshold) ==
  IF Len(sn) = 0 THEN Null
  ELSE LET head == sn[1]
       IN IF isShortcutSafe(head, fd, n, sn, obs, threshold)
          THEN LET directPath == findDirectPathToFood(head, fd, n, obs)
               IN IF ~IsNull(directPath) /\ Len(directPath.cells) > 0
                  THEN Route(<< directPath.cells[1] >>)
                  ELSE Null
          ELSE Null

\* fallbackToAStarOrDefault without its second step, the pick among the safe
\* neighbours
fallbackToAStarOrDefault_NoSafeNeighbor(head, sn, n, fd, obs, cyc) ==
  LET aStarPathToFood == AStarAlgorithm_findPath(head, fd, n, sn, obs, 1)
      right           == Pos(head.x + 1, head.y)
  IN IF /\ ~IsNull(aStarPathToFood)
        /\ Len(aStarPathToFood.cells) > 0
        /\ isCellSafeForMove(aStarPathToFood.cells[1], sn, n, obs)
     THEN { [nextPos |-> aStarPathToFood.cells[1], path |-> aStarPathToFood.cells] }
     ELSE IF Len(cyc) > 0 /\ CycleHas(cyc, head)
     THEN LET lastDitchPos == CycleAt(cyc, (CycleGet(cyc, head) + 1) % Len(cyc))
          IN { [nextPos |-> lastDitchPos, path |-> << lastDitchPos >>] }
     ELSE { [nextPos |-> right, path |-> << right >>] }

\* fallbackToAStarOrDefault: the set of results it can return (the random
\* pick among the safe neighbours makes it a set); a result is [nextPos, path]
fallbackToAStarOrDefault(head, sn, n, fd, obs, cyc) ==
  LET aStarPathToFood == AStarAlgorithm_findPath(head, fd, n, sn, obs, 1)
      safeNeighbors   == SelectSeq(getNeighbors(head, n, sn, obs),
                                   LAMBDA c : isCellSafeForMove(c, sn, n, obs))
      right           == Pos(head.x + 1, head.y)
  IN IF /\ ~IsNull(aStarPathToFood)
        /\ Len(aStarPathToFood.cells) > 0
        /\ isCellSafeForMove(aStarPathToFood.cells[1], sn, n, obs)
     THEN { [nextPos |-> aStarPathToFood.cells[1], path |-> aStarPathToFood.cells] }
     ELSE IF Len(safeNeighbors) > 0
     THEN { [nextPos |-> safeNeighbors[k], path |-> << safeNeighbors[k] >>] :
              k \in 1..Len(safeNeighbors) }
     ELSE IF Len(cyc) > 0 /\ CycleHas(cyc, head)
     THEN LET lastDitchPos == CycleAt(cyc, (CycleGet(cyc, head) + 1) % Len(cyc))
          IN { [nextPos |-> lastDitchPos, path |-> << lastDitchPos >>] }
     ELSE { [nextPos |-> right, path |-> << right >>] }

\* the first of the next min(5, length) cycle cells that is safe, as the
\* number of cycle steps ahead; 0 when none is safe
FirstSafeAhead(cyc, index, sn, n, obs) ==
  LET limit == IF Len(cyc) < 5 THEN Len(cyc) ELSE 5
      safe(i) == isCellSafeForMove(CycleAt(cyc, (index + i) % Len(cyc)), sn, n, obs)
  IN IF \E i \in 1..limit : safe(i)
     THEN CHOOSE i \in 1..limit : safe(i) /\ \A j \in 1..(i - 1) : ~safe(j)
     ELSE 0

\* the visualisation path of a cycle step: the next min(10, length) cycle cells
CyclePathAhead(cyc, index) ==
  LET count == IF Len(cyc) < 10 THEN Len(cyc) ELSE 10
  IN [j \in 1..count |-> CycleAt(cyc, (index + j) % Len(cyc))]

\* HamiltonianAlgorithm.getNextDirection: the set of outcomes of one call. sn
\* is the argument, held is this.snake. An outcome gives the direction
\* returned, the cell chosen, the new lastChosenPathForViz and
\* currentCycleIndex, and the branch that decided.
Hamiltonian_getNextDirection(sn, n, held, fd, obs, cyc, index, threshold) ==
  IF Len(sn) = 0
  THEN { [dir |-> "RIGHT", nextPos |-> Pos(0, 0), path |-> << >>, index |-> index,
          branch |-> "empty"] }
  ELSE
  LET head == sn[1]
      viaFallback(i) ==
        { [dir |-> getDirectionFromPositions(head, f.nextPos), nextPos |-> f.nextPos,
           path |-> f.path, index |-> i, branch |-> "fallback"] :
            f \in fallbackToAStarOrDefault(head, sn, n, fd, obs, cyc) }
  IN IF Len(cyc) = 0 \/ ~CycleHas(cyc, head) THEN viaFallback(index)
     ELSE
     LET current         == CycleGet(cyc, head)
         shortcutAttempt == findShortcutToFood(n, held, fd, obs, threshold)
         ahead           == FirstSafeAhead(cyc, current, sn, n, obs)
     IN IF /\ ~IsNull(shortcutAttempt)
           /\ isCellSafeForMove(shortcutAttempt.cells[1], sn, n, obs)
        THEN LET chosenNextPos        == shortcutAttempt.cells[1]
                 directPathToShortcut == findDirectPathToFood(head, chosenNextPos, n, obs)
             IN { [dir |-> getDirectionFromPositions(head, chosenNextPos),
                   nextPos |-> chosenNextPos,
                   path |-> IF ~IsNull(directPathToShortcut)
                            THEN directPathToShortcut.cells ELSE << chosenNextPos >>,
                   index |-> current, branch |-> "shortcut"] }
        ELSE IF ahead > 0
        THEN LET chosenNextPos == CycleAt(cyc, (current + ahead) % Len(cyc))
             IN { [dir |-> getDirectionFromPositions(head, chosenNextPos),
                   nextPos |-> chosenNextPos,
                   path |-> CyclePathAhead(cyc, current),
                   index |-> current, branch |-> "cycle"] }
        ELSE viaFallback(current)

\* HamiltonianAlgorithm.initialize and update: the new currentCycleIndex
HeadCycleIndex(sn, cyc, index) ==
  IF Len(sn) > 0 /\ CycleHas(cyc, sn[1]) THEN CycleGet(cyc, sn[1]) ELSE index

-----------------------------------------------------------------------------
(* AStarAlgorithm: the path follower *)

\* snake[1]?.x || head.x : a coordinate 0 of the second segment is falsy
OrElse(v, fallback) == IF v # 0 THEN v ELSE fallback

\* getRandomDirection without its last line, "return 'RIGHT'; // Default": a
\* head with no valid move and no second segment gets no direction
getRandomDirection_NoDefault(head, sn, n, obs) ==
  LET validMoves == getNeighbors(head, n, sn, obs)
  IN IF Len(validMoves) = 0
     THEN IF Len(sn) > 1
          THEN LET dx == head.x - OrElse(sn[2].x, head.x)
                   dy == head.y - OrElse(sn[2].y, head.y)
               IN IF dx > 0 THEN {"RIGHT"}
                  ELSE IF dx < 0 THEN {"LEFT"}
                  ELSE IF dy > 0 THEN {"DOWN"}
                  ELSE IF dy < 0 THEN {"UP"}
                  ELSE {"undefined"}
          ELSE {"undefined"}
     ELSE { getDirectionFromPositions(head, validMoves[k]) : k \in 1..Len(validMoves) }

\* PathfindingUtils.getRandomDirection: the set of directions it can return
getRandomDirection(head, sn, n, obs) ==
  LET validMoves == getNeighbors(head, n, sn, obs)
  IN IF Len(validMoves) = 0
     THEN IF Len(sn) > 1
          THEN LET dx == head.x - OrElse(sn[2].x, head.x)
                   dy == head.y - OrElse(sn[2].y, head.y)
               IN IF dx > 0 THEN {"RIGHT"}
                  ELSE IF dx < 0 THEN {"LEFT"}
                  ELSE IF dy > 0 THEN {"DOWN"}
                  ELSE IF dy < 0 THEN {"UP"}
                  ELSE {"RIGHT"}
          ELSE {"RIGHT"}
     ELSE { getDirectionFromPositions(head, validMoves[k]) : k \in 1..Len(validMoves) }

\* Number.MAX_SAFE_INTEGER, held as the largest 32-bit integer: it is only ever
\* compared with distances on the board, and any value above them all acts
\* the same
MAX_SAFE_INTEGER == 2147483647

\* the least heuristic distance from cell c to a segment other than the head;
\* Number.MAX_SAFE_INTEGER when the snake is only a head
MinDistanceToSnake(c, sn, w) ==
  IF Len(sn) < 2 THEN MAX_SAFE_INTEGER
  ELSE LET ds == { heuristic(c, sn[i], w) : i \in 2..Len(sn) }
           least == CHOOSE d \in ds : \A e \in ds : d <= e
       IN IF least < MAX_SAFE_INTEGER THEN least ELSE MAX_SAFE_INTEGER

\* reduce that lets a move replace the safest so far when it is as far from
\* the body, where the code asks for strictly farther
RECURSIVE ReduceSafest_TakesLast(_, _, _, _)
ReduceSafest_TakesLast(safest, moves, sn, w) ==
  IF moves = << >> THEN safest
  ELSE ReduceSafest_TakesLast(IF MinDistanceToSnake(Head(moves), sn, w)
                                   >= MinDistanceToSnake(safest, sn, w)
                              THEN Head(moves) ELSE safest,
                              Tail(moves), sn, w)

\* possibleMoves.reduce(..., possibleMoves[0]): a move replaces the safest so
\* far only when it is strictly farther from the body
RECURSIVE ReduceSafest(_, _, _, _)
ReduceSafest(safest, moves, sn, w) ==
  IF moves = << >> THEN safest
  ELSE ReduceSafest(IF MinDistanceToSnake(Head(moves), sn, w)
                         > MinDistanceToSnake(safest, sn, w)
                    THEN Head(moves) ELSE safest,
                    Tail(moves), sn, w)

\* AStarAlgorithm.findSafeMove: Null, or a one-cell Route holding the move
findSafeMove(n, sn, obs, w) ==
  IF Len(sn) = 0 THEN Null
  ELSE LET possibleMoves == getNeighbors(sn[1], n, sn, obs)
       IN IF Len(possibleMoves) = 0 THEN Null
          ELSE Route(<< ReduceSafest(possibleMoves[1], possibleMoves, sn, w) >>)

\* calculatePath that adds the route found to the route held, where the
\* code replaces it
AStarAlgorithm_calculatePath_Appends(n, sn, fd, obs, w, oldPath, oldIndex) ==
  IF Len(sn) = 0 THEN [path |-> oldPath, pathIndex |-> oldIndex]
  ELSE LET pathToFood == AStarAlgorithm_findPath(sn[1], fd, n, sn, obs, w)
           safeMove   == findSafeMove(n, sn, obs, w)
       IN IF ~IsNull(pathToFood) /\ Len(pathToFood.cells) > 0
          THEN [path |-> oldPath \o pathToFood.cells, pathIndex |-> 0]
          ELSE IF ~IsNull(safeMove)
          THEN [path |-> safeMove.cells, pathIndex |-> 0]
          ELSE [path |-> << >>, pathIndex |-> oldIndex]

\* AStarAlgorithm.calculatePath: the new [path, pathIndex]
AStarAlgorithm_calculatePath(n, sn, fd, obs, w, oldPath, oldIndex) ==
  IF Len(sn) = 0 THEN [path |-> oldPath, pathIndex |-> oldIndex]
  ELSE LET pathToFood == AStarAlgorithm_findPath(sn[1], fd, n, sn, obs, w)
           safeMove   == findSafeMove(n, sn, obs, w)
       IN IF ~IsNull(pathToFood) /\ Len(pathToFood.cells) > 0
          THEN [path |-> pathToFood.cells, pathIndex |-> 0]
          ELSE IF ~IsNull(safeMove)
          THEN [path |-> safeMove.cells, pathIndex |-> 0]
          ELSE [path |-> << >>, pathIndex |-> oldIndex]

\* AStarAlgorithm.getNextDirection: the set of outcomes [dir, pathIndex] with
\* the branch that returned
AStarAlgorithm_getNextDirection(sn, n, obs, pth, idx) ==
  IF Len(pth) = 0 \/ idx >= Len(pth)
  THEN { [dir |-> d, pathIndex |-> idx, branch |-> "random"] :
           d \in getRandomDirection(sn[1], sn, n, obs) }
  ELSE { [dir |-> getDirectionFromPositions(sn[1], pth[idx + 1]), pathIndex |-> idx + 1,
          branch |-> "path"] }

-----------------------------------------------------------------------------
(* AISnake: the controller of the AI page *)

\* AISnake.generateHamiltonianCycle: on an odd board no cycle is built (and
\* the algorithm becomes 'astar'); obstacles are not looked at
AISnake_generateHamiltonianCycle(n) ==
  IF n % 2 # 0 THEN << >> ELSE Boustrophedon(0, n - 1, n - 1, n, {})

\* the simulation loop of isShortcutSafe: the snake copy moves along the
\* shortcut without growing; [ok, snake]
RECURSIVE SimulateShortcut(_, _)
SimulateShortcut(snakeCopy, shortcutPath) ==
  IF shortcutPath = << >> THEN [ok |-> TRUE, snake |-> snakeCopy]
  ELSE LET step  == Head(shortcutPath)
           moved == << step >> \o SubSeq(snakeCopy, 1, Len(snakeCopy) - 1)
       IN IF \E i \in 2..Len(moved) : moved[i] = step
          THEN [ok |-> FALSE, snake |-> moved]
          ELSE SimulateShortcut(moved, Tail(shortcutPath))

\* the breadth-first search of isShortcutSafe, as the set of cells it visits
RECURSIVE TailSearch(_, _, _, _, _)
TailSearch(visited, snakeCopy, tail, n, obs) ==
  LET body == { snakeCopy[i] : i \in 1..Len(snakeCopy) } \ {tail}
      more == { c \in Cells(n) \ visited :
                  /\ c \notin obs
                  /\ c \notin body
                  /\ \E d \in visited \ {tail} :
                       abs(c.x - d.x) + abs(c.y - d.y) = 1 }
  IN IF more = {} THEN visited ELSE TailSearch(visited \cup more, snakeCopy, tail, n, obs)

AISnake_isShortcutSafe(shortcutPath, n, sn, obs, threshold) ==
  IF 100 * 100 * Len(sn) < n * n * threshold THEN TRUE
  ELSE LET simulatedHead == shortcutPath[Len(shortcutPath)]
           tail          == sn[Len(sn)]
           sim           == SimulateShortcut(sn, shortcutPath)
       IN /\ sim.ok
          /\ tail \in TailSearch({simulatedHead}, sim.snake, tail, n, obs)

\* the cycle cells after index current up to and including index goal
CycleSlice(cyc, current, goalIndex) ==
  IF goalIndex > current
  THEN SubSeq(cyc, current + 2, goalIndex + 1)
  ELSE SubSeq(cyc, current + 2, Len(cyc)) \o SubSeq(cyc, 1, goalIndex + 1)

findPathHamiltonian(start, goal, n, sn, obs, w, cyc, threshold) ==
  IF Len(cyc) = 0 \/ ~CycleHas(cyc, start) \/ ~CycleHas(cyc, goal)
  THEN findPathAStar(start, goal, n, sn, obs, w)
  ELSE LET directPath == findPathBFS(start, goal, n, sn, obs)
       IN IF /\ ~IsNull(directPath)
             /\ Len(directPath.cells) > 0
             /\ AISnake_isShortcutSafe(directPath.cells, n, sn, obs, threshold)
          THEN directPath
          ELSE Route(CycleSlice(cyc, CycleGet(cyc, start), CycleGet(cyc, goal)))

\* AISnake.findPath: the switch over this.algorithm
findPath(alg, start, goal, n, sn, obs, w, cyc, threshold) ==
  CASE alg = "astar"       -> findPathAStar(start, goal, n, sn, obs, w)
    [] alg = "bfs"         -> findPathBFS(start, goal, n, sn, obs)
    [] alg = "greedy"      -> findPathGreedy(start, goal, n, sn, obs, w)
    [] alg = "dijkstra"    -> findPathDijkstra(start, goal, n, sn, obs)
    [] alg = "hamiltonian" -> findPathHamiltonian(start, goal, n, sn, obs, w, cyc, threshold)
    [] OTHER               -> findPathAStar(start, goal, n, sn, obs, w)

AISnake_findSafeMove(alg, n, sn, obs, w, cyc) ==
  LET head          == sn[1]
      possibleMoves == getNeighbors(head, n, sn, obs)
      nextPos       == CycleAt(cyc, (CycleGet(cyc, head) + 1) % Len(cyc))
  IN IF Len(possibleMoves) = 0 THEN Null
     ELSE IF /\ alg = "hamiltonian" /\ Len(cyc) > 0 /\ CycleHas(cyc, head)
             /\ \E k \in 1..Len(possibleMoves) : possibleMoves[k] = nextPos
     THEN Route(<< nextPos >>)
     ELSE Route(<< ReduceSafest(possibleMoves[1], possibleMoves, sn, w) >>)

\* AISnake.calculatePath: the new [path, pathIndex]; when there is neither a
\* route nor a safe move the existing path and index are kept
AISnake_calculatePath(alg, n, sn, fd, obs, w, cyc, threshold, oldPath, oldIndex) ==
  LET pathToFood == findPath(alg, sn[1], fd, n, sn, obs, w, cyc, threshold)
      safeMove   == AISnake_findSafeMove(alg, n, sn, obs, w, cyc)
  IN IF ~IsNull(pathToFood) /\ Len(pathToFood.cells) > 0
     THEN [path |-> pathToFood.cells, pathIndex |-> 0]
     ELSE IF ~IsNull(safeMove)
     THEN [path |-> safeMove.cells, pathIndex |-> 0]
     ELSE [path |-> oldPath, pathIndex |-> oldIndex]

\* AISnake.getRandomDirection: the set of directions it can return
AISnake_getRandomDirection(n, sn, obs) ==
  LET head       == sn[1]
      validMoves == getNeighbors(head, n, sn, obs)
      dx == head.x - (IF Len(sn) > 1 THEN OrElse(sn[2].x, head.x) ELSE head.x)
      dy == head.y - (IF Len(sn) > 1 THEN OrElse(sn[2].y, head.y) ELSE head.y)
  IN IF Len(validMoves) = 0
     THEN IF dx > 0 THEN {"RIGHT"}
          ELSE IF dx < 0 THEN {"LEFT"}
          ELSE IF dy > 0 THEN {"DOWN"}
          ELSE IF dy < 0 THEN {"UP"}
          ELSE {"RIGHT"}
     ELSE { getDirectionFromPositions(head, validMoves[k]) : k \in 1..Len(validMoves) }

\* AISnake.getNextDirection: the set of outcomes [dir, pathIndex] with the
\* branch that returned
AISnake_getNextDirection(alg, n, sn, obs, cyc, pth, idx) ==
  LET head == sn[1]
      random(i) == { [dir |-> d, pathIndex |-> i, branch |-> "random"] :
                       d \in AISnake_getRandomDirection(n, sn, obs) }
  IN IF Len(pth) = 0 \/ idx >= Len(pth)
     THEN IF alg = "hamiltonian" /\ Len(cyc) > 0 /\ CycleHas(cyc, head)
               /\ CycleAt(cyc, (CycleGet(cyc, head) + 1) % Len(cyc)) # head
          THEN { [dir |-> getDirectionFromPositions(
                            head, CycleAt(cyc, (CycleGet(cyc, head) + 1) % Len(cyc))),
                  pathIndex |-> idx, branch |-> "cycle"] }
          ELSE random(idx)
     ELSE IF pth[idx + 1] # head
          THEN { [dir |-> getDirectionFromPositions(head, pth[idx + 1]),
                  pathIndex |-> idx + 1, branch |-> "path"] }
          ELSE random(idx + 1)

-----------------------------------------------------------------------------
(* Bounds and input domains *)

BoardSide   == 4      \* side of the boards the searches are run on
MaxSnakeLen == 3      \* longest snake drawn as an input
MaxWeight   == 1      \* heuristic weights are drawn from 0..MaxWeight
CoilLen     == 4      \* longest free-form snake handed to the shortcut checks
LongBoardSide == 6    \* side of the board the long snakes lie on
MaxCalls    == 3      \* getNextDirection calls since the last update are counted up to here
MaxObstacles == 2     \* most obstacles startGame places
MaxGrown    == 4      \* the player's game is followed while the snake has at most this many segments

\* obstacle layouts of a board of side n: none, a corner box around (0,0),
\* and a two-cell wall
Layouts(n) ==
  { {}, {Pos(1, 0), Pos(0, 1)}, {Pos(1, 1), Pos(1, 2)} }

\* self-avoiding 4-connected walks of exactly k cells that avoid obs
RECURSIVE Walks(_, _, _)
Walks(k, n, obs) ==
  IF k = 1 THEN { << c >> : c \in Cells(n) \ obs }
  ELSE LET shorter == Walks(k - 1, n, obs)
       IN UNION { { Append(w, c) :
                    c \in { d \in Cells(n) \ obs :
                              /\ abs(d.x - w[Len(w)].x) + abs(d.y - w[Len(w)].y) = 1
                              /\ \A i \in 1..Len(w) : w[i] # d } }
                  : w \in shorter }

Snakes(maxLen, n, obs) == UNION { Walks(k, n, obs) : k \in 1..maxLen }

\* a specification that drives no strategy leaves the strategy fields as the
\* field initialisers set them
NoVerdict == [checked |-> FALSE, isShortcutSafe |-> FALSE, canReachTail |-> FALSE]

IdleStrategy ==
  /\ strategy = "none"
  /\ algorithm = "astar"
  /\ shortcutThreshold = Hundredths(33)
  /\ path = << >>
  /\ pathIndex = 0
  /\ cycle = << >>
  /\ currentCycleIndex = 0
  /\ dir = "NONE"
  /\ branch = "none"
  /\ verdict = NoVerdict

\* no method of a strategy was called yet
IdleCalls ==
  /\ lastCall = "none"
  /\ calls = 0

\* the tunables of createAlgorithm: config?.heuristicWeight and
\* config?.shortcutThreshold, each of which may be absent
Tunable(given, v) == [given |-> given, value |-> v]

NoConfig == [heuristicWeight |-> Tunable(FALSE, 0), shortcutThreshold |-> Tunable(FALSE, 0)]

\* the references to cell objects that make up a snapshot: the snake array,
\* the goal object and the obstacle array; a reference is an index into heap
Refs(sn, fd, obs) == [snake |-> sn, food |-> fd, obstacles |-> obs]

NoRefs == Refs(<< >>, 0, << >>)

\* a specification without a factory, and with a driver that leaves the
\* objects it handed over alone
IdleOthers ==
  /\ config = NoConfig
  /\ heap = << >>
  /\ driver = NoRefs
  /\ stored = NoRefs

\* the store's initial state, before startGame
IdleGame ==
  /\ gameStatus = "IDLE"
  /\ direction = "RIGHT"
  /\ nextDirection = "RIGHT"
  /\ score = 0

-----------------------------------------------------------------------------
(* SpecPath: the searches as pure functions of a snapshot *)

InitPath ==
  /\ boardSize = BoardSide
  /\ obstacles \in Layouts(boardSize)
  /\ snake \in Snakes(MaxSnakeLen, boardSize, obstacles)
  /\ food \in Cells(boardSize)
  /\ weight \in 0..MaxWeight
  /\ pc = "input"
  /\ route = Null
  /\ IdleStrategy
  /\ IdleGame
  /\ IdleCalls
  /\ IdleOthers

RunAStar ==
  /\ pc = "input"
  /\ route' = findPathAStar(snake[1], food, boardSize, snake, obstacles, weight)
  /\ pc' = "astar"
  /\ UNCHANGED <<snapshotVars, weight, strategyVars, gameVars, callVars, otherVars>>

RunBFS ==
  /\ pc = "input"
  /\ route' = findPathBFS(snake[1], food, boardSize, snake, obstacles)
  /\ pc' = "bfs"
  /\ UNCHANGED <<snapshotVars, weight, strategyVars, gameVars, callVars, otherVars>>

RunGreedy ==
  /\ pc = "input"
  /\ route' = findPathGreedy(snake[1], food, boardSize, snake, obstacles, weight)
  /\ pc' = "greedy"
  /\ UNCHANGED <<snapshotVars, weight, strategyVars, gameVars, callVars, otherVars>>

RunDijkstra ==
  /\ pc = "input"
  /\ route' = findPathDijkstra(snake[1], food, boardSize, snake, obstacles)
  /\ pc' = "dijkstra"
  /\ UNCHANGED <<snapshotVars, weight, strategyVars, gameVars, callVars, otherVars>>

\* the fallback of calculatePath when no search is to be trusted
RunSafeMove ==
  /\ pc = "input"
  /\ route' = AISnake_findSafeMove("bfs", boardSize, snake, obstacles, weight, << >>)
  /\ pc' = "safemove"
  /\ UNCHANGED <<snapshotVars, weight, strategyVars, gameVars, callVars, otherVars>>

NextPath == RunAStar \/ RunBFS \/ RunGreedy \/ RunDijkstra \/ RunSafeMove

SpecPath == InitPath /\ [][NextPath]_vars

-----------------------------------------------------------------------------
(* Spec: the three strategy classes under initialize, update and          *)
(* getNextDirection                                                        *)

Directions == {"UP", "DOWN", "LEFT", "RIGHT"}

Algorithms == {"astar", "bfs", "greedy", "dijkstra", "hamiltonian"}

\* the classes that are driven and the algorithm each runs
Strategies ==
  { [class |-> "AStarAlgorithm", algorithm |-> "astar"],
    [class |-> "HamiltonianAlgorithm", algorithm |-> "hamiltonian"] }
  \cup { [class |-> "AISnake", algorithm |-> a] : a \in Algorithms }

\* the obstacle layouts the strategies are driven on: none, the corner box
\* that walls in cell (0,0), and (on the smaller board) the pocket
CornerBox == {Pos(1, 0), Pos(0, 1)}

\* a dead end: cell (0,1) can only be entered from (0,0)
Pocket == {Pos(1, 1), Pos(0, 2)}

\* goal cells of the snapshots handed to the strategies
Foods(n, obs) == {Pos(0, 0), Pos(n - 1, n - 1), Pos(2, 1)} \ obs

\* the snapshots one tick later: the head has entered a cell next to it that
\* is inside the board and holds neither an obstacle nor a segment; a snake
\* that entered the goal has grown and the goal has moved
NextSnapshots(sn, fd, n, obs) ==
  LET body    == { sn[i] : i \in 1..Len(sn) }
      targets == { c \in Cells(n) \ (obs \cup body) :
                     abs(c.x - sn[1].x) + abs(c.y - sn[1].y) = 1 }
  IN UNION { IF c = fd
             THEN IF Len(sn) < MaxSnakeLen
                  THEN { [snake |-> << c >> \o sn, food |-> f] :
                           f \in Foods(n, obs) \ body }
                  ELSE {}
             ELSE { [snake |-> << c >> \o SubSeq(sn, 1, Len(sn) - 1), food |-> fd] }
           : c \in targets }

\* the arguments of the constructor and of initialize
Init ==
  /\ boardSize \in {BoardSide - 1, BoardSide}
  /\ obstacles \in IF boardSize = BoardSide THEN {{}, CornerBox} ELSE {{}, CornerBox, Pocket}
  /\ snake \in Snakes(MaxSnakeLen - 1, boardSize, obstacles)
  /\ food \in Foods(boardSize, obstacles)
  /\ weight = 1
  /\ pc = "new"
  /\ route = Null
  /\ \E s \in Strategies : strategy = s.class /\ algorithm = s.algorithm
  /\ shortcutThreshold = Hundredths(33)
  /\ path = << >>
  /\ pathIndex = 0
  /\ cycle = << >>
  /\ currentCycleIndex = 0
  /\ dir = "NONE"
  /\ branch = "none"
  /\ verdict = NoVerdict
  /\ IdleGame
  /\ IdleCalls
  /\ IdleOthers

\* initialize of AStarAlgorithm (heuristicWeight w) and of
\* HamiltonianAlgorithm, and the constructor of AISnake: what the call leaves
\* in the fields of an instance of class cls
initialize(cls, w) ==
  CASE cls = "AStarAlgorithm" ->
         LET r == AStarAlgorithm_calculatePath(boardSize, snake, food, obstacles,
                                               w, path, pathIndex)
         IN /\ path' = r.path
            /\ pathIndex' = r.pathIndex
            /\ UNCHANGED <<algorithm, cycle, currentCycleIndex>>
    [] cls = "HamiltonianAlgorithm" ->
         /\ cycle' = generateHamiltonianCycle(boardSize, obstacles)
         /\ currentCycleIndex' = HeadCycleIndex(snake, cycle', currentCycleIndex)
         /\ path' = << >>
         /\ UNCHANGED <<algorithm, pathIndex>>
    [] cls = "AISnake" ->
         /\ cycle' = IF algorithm = "hamiltonian"
                     THEN AISnake_generateHamiltonianCycle(boardSize) ELSE cycle
         /\ algorithm' = IF algorithm = "hamiltonian" /\ boardSize % 2 # 0
                         THEN "astar" ELSE algorithm
         /\ LET r == AISnake_calculatePath(algorithm', boardSize, snake, food, obstacles,
                                           w, cycle', shortcutThreshold,
                                           path, pathIndex)
            IN path' = r.path /\ pathIndex' = r.pathIndex
         /\ UNCHANGED currentCycleIndex

\* the driver builds the strategy: new AISnake(...), or new AStarAlgorithm /
\* new HamiltonianAlgorithm followed by initialize(...)
Initialize ==
  /\ pc = "new"
  /\ pc' = "ready"
  /\ initialize(strategy, weight)
  /\ lastCall' = "initialize"
  /\ calls' = 0
  /\ UNCHANGED <<snapshotVars, weight, route, strategy, shortcutThreshold, dir, branch,
                 verdict, gameVars, otherVars>>

\* update(sn, fd, obstacles) of the three classes: what the call leaves in
\* path, pathIndex and currentCycleIndex (the obstacles handed over are those
\* of initialize)
update(sn, fd) ==
  CASE strategy = "AStarAlgorithm" ->
         LET r == AStarAlgorithm_calculatePath(boardSize, sn, fd, obstacles, weight,
                                               path, pathIndex)
         IN /\ path' = r.path
            /\ pathIndex' = r.pathIndex
            /\ UNCHANGED currentCycleIndex
    [] strategy = "HamiltonianAlgorithm" ->
         /\ currentCycleIndex' = HeadCycleIndex(sn, cycle, currentCycleIndex)
         /\ UNCHANGED <<path, pathIndex>>
    [] strategy = "AISnake" ->
         LET r == AISnake_calculatePath(algorithm, boardSize, sn, fd, obstacles, weight,
                                        cycle, shortcutThreshold, path, pathIndex)
         IN /\ path' = r.path
            /\ pathIndex' = r.pathIndex
            /\ UNCHANGED currentCycleIndex

\* update(snake, food, obstacles) with the snapshot of the next tick
Update ==
  /\ pc = "ready"
  /\ \E next \in NextSnapshots(snake, food, boardSize, obstacles) :
       /\ snake' = next.snake
       /\ food' = next.food
       /\ update(next.snake, next.food)
  /\ lastCall' = "update"
  /\ calls' = 0
  /\ UNCHANGED <<boardSize, obstacles, weight, pc, route, strategy, algorithm,
                 shortcutThreshold, cycle, dir, branch, verdict, gameVars, otherVars>>

\* getNextDirection(snake, currentDirection) with the snake last handed to
\* update, as the page calls it
GetNextDirection ==
  /\ pc = "ready"
  /\ CASE strategy = "AStarAlgorithm" ->
            \E o \in AStarAlgorithm_getNextDirection(snake, boardSize, obstacles,
                                                     path, pathIndex) :
              /\ dir' = o.dir
              /\ pathIndex' = o.pathIndex
              /\ branch' = o.branch
              /\ UNCHANGED <<path, currentCycleIndex>>
       [] strategy = "HamiltonianAlgorithm" ->
            \E o \in Hamiltonian_getNextDirection(snake, boardSize, snake, food, obstacles,
                                                  cycle, currentCycleIndex,
                                                  shortcutThreshold) :
              /\ dir' = o.dir
              /\ path' = o.path
              /\ currentCycleIndex' = o.index
              /\ branch' = o.branch
              /\ UNCHANGED pathIndex
       [] strategy = "AISnake" ->
            \E o \in AISnake_getNextDirection(algorithm, boardSize, snake, obstacles,
                                              cycle, path, pathIndex) :
              /\ dir' = o.dir
              /\ pathIndex' = o.pathIndex
              /\ branch' = o.branch
              /\ UNCHANGED <<path, currentCycleIndex>>
  /\ lastCall' = "getNextDirection"
  /\ calls' = IF calls < MaxCalls THEN calls + 1 ELSE calls
  /\ UNCHANGED <<snapshotVars, weight, pc, route, strategy, algorithm, shortcutThreshold,
                 cycle, verdict, gameVars, otherVars>>

Next == Initialize \/ Update \/ GetNextDirection

Spec == Init /\ [][Next]_vars

-----------------------------------------------------------------------------
(* SpecUpdate: the three strategy classes on the smaller board, with       *)
(* update calls that repeat the snapshot of the call before                *)

InitUpdate == Init /\ boardSize = BoardSide - 1

\* update(snake, food, obstacles) called a second time in a row with the
\* snapshot of the call before (the page's effect runs again although the
\* store's snapshot did not change)
UpdateAgain ==
  /\ pc = "ready"
  /\ lastCall = "update"
  /\ update(snake, food)
  /\ lastCall' = "update again"
  /\ calls' = 0
  /\ UNCHANGED <<snapshotVars, weight, pc, route, strategy, algorithm,
                 shortcutThreshold, cycle, dir, branch, verdict, gameVars, otherVars>>

NextUpdate == Initialize \/ Update \/ UpdateAgain \/ GetNextDirection

SpecUpdate == InitUpdate /\ [][NextUpdate]_vars

\* findPath(start, goal) of the strategy that is driven, on the snapshot it
\* holds (HamiltonianAlgorithm.findPath takes no argument and hands back the
\* route it chose last)
StrategyFindPath(start, goal) ==
  CASE strategy = "AStarAlgorithm" ->
         AStarAlgorithm_findPath(start, goal, boardSize, snake, obstacles, weight)
    [] strategy = "AISnake" ->
         findPath(algorithm, start, goal, boardSize, snake, obstacles, weight, cycle,
                  shortcutThreshold)
    [] strategy = "HamiltonianAlgorithm" ->
         IF Len(path) > 0 THEN Route(path) ELSE Null

-----------------------------------------------------------------------------
(* SpecFactory: AlgorithmFactory.createAlgorithm builds and initializes    *)
(* the strategy for a requested name and optional tunables; the driver     *)
(* then asks it for a route and for directions. Here algorithm is the      *)
(* name requested.                                                         *)

\* config?.field ?? fallback
Given(tunable, fallback) == IF tunable.given THEN tunable.value ELSE fallback

\* the tunables handed to the factory: absent, or heuristic weights 0 and 1
\* and shortcut percentages 0, 33 and 100
Configs ==
  [heuristicWeight   : {Tunable(FALSE, 0)} \cup {Tunable(TRUE, w) : w \in 0..MaxWeight},
   shortcutThreshold : {Tunable(FALSE, 0)} \cup {Tunable(TRUE, p) : p \in {0, 33, 100}}]

\* the class createAlgorithm constructs and the config it hands to the
\* constructor; (config?.shortcutThreshold ?? 33) / 100 is that number of
\* hundredths
createAlgorithm(alg, cfg) ==
  CASE alg = "astar" ->
         [class |-> "AStarAlgorithm",
          heuristicWeight |-> Given(cfg.heuristicWeight, 1),
          shortcutThreshold |-> shortcutThreshold]
    [] alg = "hamiltonian" ->
         [class |-> "HamiltonianAlgorithm",
          heuristicWeight |-> weight,
          shortcutThreshold |-> Given(cfg.shortcutThreshold, 33)]
    [] OTHER ->
         [class |-> "AStarAlgorithm",
          heuristicWeight |-> Given(cfg.heuristicWeight, 1),
          shortcutThreshold |-> shortcutThreshold]

\* a two-cell wall in the middle of the board
Wall == {Pos(1, 1), Pos(1, 2)}

InitFactory ==
  /\ boardSize = BoardSide
  /\ obstacles \in {{}, Wall}
  /\ snake \in Snakes(MaxSnakeLen - 1, boardSize, obstacles)
  /\ food \in Foods(boardSize, obstacles) \cup {Pos(2, 2)}
  /\ algorithm \in Algorithms \cup {"unknown"}
  /\ config \in Configs
  /\ strategy = "none"
  /\ weight = 1
  /\ shortcutThreshold = Hundredths(33)
  /\ pc = "config"
  /\ route = Null
  /\ path = << >>
  /\ pathIndex = 0
  /\ cycle = << >>
  /\ currentCycleIndex = 0
  /\ dir = "NONE"
  /\ branch = "none"
  /\ verdict = NoVerdict
  /\ IdleGame
  /\ IdleCalls
  /\ heap = << >>
  /\ driver = NoRefs
  /\ stored = NoRefs

\* AlgorithmFactory.createAlgorithm(algorithm, boardSize, snake, food,
\* obstacles, config): the constructor call and pathfinder.initialize
CreateAlgorithm ==
  /\ pc = "config"
  /\ pc' = "ready"
  /\ LET made == createAlgorithm(algorithm, config)
     IN /\ strategy' = made.class
        /\ weight' = made.heuristicWeight
        /\ shortcutThreshold' = made.shortcutThreshold
        /\ initialize(made.class, made.heuristicWeight)
  /\ lastCall' = "initialize"
  /\ calls' = 0
  /\ UNCHANGED <<snapshotVars, route, dir, branch, verdict, gameVars, otherVars>>

\* findPath(head, food) of the strategy the factory returned
FindPathMade ==
  /\ pc = "ready"
  /\ pc' = "asked"
  /\ route' = StrategyFindPath(snake[1], food)
  /\ UNCHANGED <<snapshotVars, weight, strategyVars, gameVars, callVars, otherVars>>

NextFactory == CreateAlgorithm \/ FindPathMade \/ GetNextDirection

SpecFactory == InitFactory /\ [][NextFactory]_vars

-----------------------------------------------------------------------------
(* SpecAlias: the driver keeps the arrays and objects it handed to         *)
(* initialize and writes to them afterwards. Here snake, food and          *)
(* obstacles are the values handed over at the call; what the strategy     *)
(* reads is what its references lead to.                                   *)

\* an array holding the elements of a set
RECURSIVE ArrayOf(_)
ArrayOf(set) ==
  IF set = {} THEN << >>
  ELSE LET e == CHOOSE c \in set : TRUE IN << e >> \o ArrayOf(set \ {e})

\* the snapshot a set of references leads to
View(refs) ==
  [snake     |-> [i \in 1..Len(refs.snake) |-> heap[refs.snake[i]]],
   food      |-> heap[refs.food],
   obstacles |-> { heap[refs.obstacles[j]] : j \in 1..Len(refs.obstacles) }]

\* the driver's objects: one per snake cell, one for the goal, one per obstacle
InitAlias ==
  /\ boardSize = BoardSide - 1
  /\ obstacles \in {{}, CornerBox}
  /\ snake \in Snakes(MaxSnakeLen - 1, boardSize, obstacles)
  /\ food \in Foods(boardSize, obstacles)
  /\ heap = snake \o << food >> \o ArrayOf(obstacles)
  /\ driver = Refs([i \in 1..Len(snake) |-> i], Len(snake) + 1,
                   [j \in 1..Cardinality(obstacles) |-> Len(snake) + 1 + j])
  /\ stored = NoRefs
  /\ weight = 1
  /\ pc = "new"
  /\ route = Null
  /\ \E s \in Strategies : strategy = s.class /\ algorithm = s.algorithm
  /\ shortcutThreshold = Hundredths(33)
  /\ path = << >>
  /\ pathIndex = 0
  /\ cycle = << >>
  /\ currentCycleIndex = 0
  /\ dir = "NONE"
  /\ branch = "none"
  /\ verdict = NoVerdict
  /\ IdleGame
  /\ IdleCalls
  /\ config = NoConfig

\* initialize / the constructor with the driver's arrays and objects:
\* this.snake = [...snake] and this.obstacles = [...obstacles] are new arrays
\* of the same cell objects, this.food = { ...food } is a new object
InitializeShared ==
  /\ pc = "new"
  /\ pc' = "ready"
  /\ initialize(strategy, weight)
  /\ heap' = Append(heap, heap[driver.food])
  /\ stored' = Refs(driver.snake, Len(heap) + 1, driver.obstacles)
  /\ lastCall' = "initialize"
  /\ calls' = 0
  /\ UNCHANGED <<snapshotVars, weight, route, strategy, shortcutThreshold, dir, branch,
                 verdict, gameVars, config, driver>>

\* the driver writes a coordinate of a cell object of its snake or obstacle
\* array
MutateCell ==
  /\ pc = "ready"
  /\ pc' = "mutated"
  /\ \E r \in { driver.snake[i] : i \in 1..Len(driver.snake) }
              \cup { driver.obstacles[j] : j \in 1..Len(driver.obstacles) } :
       \E v \in 0..(boardSize - 1) :
          \/ v # heap[r].x /\ heap' = [heap EXCEPT ![r] = Pos(v, heap[r].y)]
          \/ v # heap[r].y /\ heap' = [heap EXCEPT ![r] = Pos(heap[r].x, v)]
  /\ UNCHANGED <<snapshotVars, weight, route, strategyVars, gameVars, callVars, config,
                 driver, stored>>

\* the driver writes a coordinate of its goal object
MutateGoal ==
  /\ pc = "ready"
  /\ pc' = "mutated"
  /\ \E v \in 0..(boardSize - 1) :
       \/ v # heap[driver.food].x
            /\ heap' = [heap EXCEPT ![driver.food] = Pos(v, heap[driver.food].y)]
       \/ v # heap[driver.food].y
            /\ heap' = [heap EXCEPT ![driver.food] = Pos(heap[driver.food].x, v)]
  /\ UNCHANGED <<snapshotVars, weight, route, strategyVars, gameVars, callVars, config,
                 driver, stored>>

\* the driver removes the last element of its snake array or of its obstacle
\* array (pop)
MutateArray ==
  /\ pc = "ready"
  /\ pc' = "mutated"
  /\ \/ /\ Len(driver.snake) > 0
        /\ driver' = [driver EXCEPT !.snake = SubSeq(@, 1, Len(@) - 1)]
     \/ /\ Len(driver.obstacles) > 0
        /\ driver' = [driver EXCEPT !.obstacles = SubSeq(@, 1, Len(@) - 1)]
  /\ UNCHANGED <<snapshotVars, weight, route, strategyVars, gameVars, callVars, config,
                 heap, stored>>

\* a decision taken on the snapshot the strategy holds: findPath(head, food)
\* of AStarAlgorithm and AISnake, findShortcutToFood of HamiltonianAlgorithm
Decide(view) ==
  CASE strategy = "AStarAlgorithm" ->
         AStarAlgorithm_findPath(view.snake[1], view.food, boardSize, view.snake,
                                 view.obstacles, weight)
    [] strategy = "AISnake" ->
         findPath(algorithm, view.snake[1], view.food, boardSize, view.snake,
                  view.obstacles, weight, cycle, shortcutThreshold)
    [] strategy = "HamiltonianAlgorithm" ->
         findShortcutToFood(boardSize, view.snake, view.food, view.obstacles,
                            shortcutThreshold)

DecideStored ==
  /\ pc \in {"ready", "mutated"}
  /\ pc' = "decided"
  /\ route' = Decide(View(stored))
  /\ UNCHANGED <<snapshotVars, weight, strategyVars, gameVars, callVars, otherVars>>

NextAlias == InitializeShared \/ MutateCell \/ MutateGoal \/ MutateArray \/ DecideStored

SpecAlias == InitAlias /\ [][NextAlias]_vars

-----------------------------------------------------------------------------
(* SpecShortcut: the shortcut checks of HamiltonianAlgorithm on short and  *)
(* on long snakes                                                          *)

\* shortcutThreshold values: a zero window, the default, the whole board side
Thresholds == {Hundredths(0), Hundredths(33), Hundredths(100)}

\* the snake of len cells that lies along the cycle with its head on the
\* cycle cell number headAt (from 1), as a snake that followed the cycle does
CycleSnake(cyc, headAt, len) == [i \in 1..len |-> cyc[headAt - i + 1]]

\* the snakes along the cycle that fill at least 6/10 of the board
LongSnakes(n) ==
  LET cyc == generateHamiltonianCycle(n, {})
  IN { CycleSnake(cyc, p[2], p[1]) :
       p \in { q \in (((6 * n * n) \div 10)..(n * n - 1)) \X (1..Len(cyc)) : q[2] >= q[1] } }

ShortcutSnakes(n, obs) ==
  IF n = LongBoardSide THEN LongSnakes(n)
  ELSE IF obs = {} THEN Snakes(CoilLen, n, obs) \cup LongSnakes(n)
  ELSE Snakes(MaxSnakeLen, n, obs)

InitShortcut ==
  /\ boardSize \in {BoardSide, LongBoardSide}
  /\ obstacles \in IF boardSize = LongBoardSide THEN {{}} ELSE {{}, CornerBox}
  /\ snake \in ShortcutSnakes(boardSize, obstacles)
  /\ food \in Cells(boardSize) \ obstacles
  /\ weight = 1
  /\ pc = "new"
  /\ route = Null
  /\ strategy = "HamiltonianAlgorithm"
  /\ algorithm = "hamiltonian"
  /\ shortcutThreshold \in Thresholds
  /\ path = << >>
  /\ pathIndex = 0
  /\ cycle = << >>
  /\ currentCycleIndex = 0
  /\ dir = "NONE"
  /\ branch = "none"
  /\ verdict = NoVerdict
  /\ IdleGame
  /\ IdleCalls
  /\ IdleOthers

\* isShortcutSafe(head, food) and canReachTailAfterShortcut(food) on the
\* snapshot held
CheckShortcut ==
  /\ pc = "ready"
  /\ strategy = "HamiltonianAlgorithm"
  /\ ~verdict.checked
  /\ verdict' = [checked        |-> TRUE,
                 isShortcutSafe |-> isShortcutSafe(snake[1], food, boardSize, snake,
                                                   obstacles, shortcutThreshold),
                 canReachTail   |-> canReachTailAfterShortcut(food, boardSize, snake,
                                                              obstacles)]
  /\ UNCHANGED <<snapshotVars, weight, pc, route, strategy, algorithm, shortcutThreshold,
                 path, pathIndex, cycle, currentCycleIndex, dir, branch, gameVars,
                 callVars, otherVars>>

NextShortcut == Initialize \/ CheckShortcut \/ GetNextDirection

SpecShortcut == InitShortcut /\ [][NextShortcut]_vars

-----------------------------------------------------------------------------
(* SpecGame: the game store driven every tick by HamiltonianAlgorithm      *)

\* setDirection: the new nextDirection; a 180-degree turn is dropped
setDirection(d, nd) ==
  IF \/ (d = "UP" /\ nd = "DOWN")
     \/ (d = "DOWN" /\ nd = "UP")
     \/ (d = "LEFT" /\ nd = "RIGHT")
     \/ (d = "RIGHT" /\ nd = "LEFT")
  THEN nd ELSE d

\* the head after one step in direction d
Step(head, d) ==
  CASE d = "UP"    -> Pos(head.x, head.y - 1)
    [] d = "DOWN"  -> Pos(head.x, head.y + 1)
    [] d = "LEFT"  -> Pos(head.x - 1, head.y)
    [] d = "RIGHT" -> Pos(head.x + 1, head.y)

\* getRandomPosition(min, max, exclude): the cells it can return
getRandomPosition(min, max, exclude) ==
  { c \in Cells(max) : c.x >= min /\ c.y >= min } \ exclude

\* the state startGame leaves on an obstacle-free board (difficulty EASY) and
\* the strategy built and initialized from it. The store puts the one-segment
\* snake on cell (5,5) of its board of side 20; on the board of side
\* BoardSide the start is drawn from all cells.
InitGame ==
  /\ boardSize = BoardSide
  /\ obstacles = {}
  /\ \E start \in Cells(boardSize) :
       /\ snake = << start >>
       /\ food \in getRandomPosition(1, boardSize - 1, {start})
  /\ direction = "RIGHT"
  /\ nextDirection = "RIGHT"
  /\ score = 0
  /\ gameStatus = "RUNNING"
  /\ weight = 1
  /\ pc = "decide"
  /\ route = Null
  /\ strategy = "HamiltonianAlgorithm"
  /\ algorithm = "hamiltonian"
  /\ shortcutThreshold = Hundredths(33)
  /\ cycle = generateHamiltonianCycle(boardSize, obstacles)
  /\ currentCycleIndex = HeadCycleIndex(snake, cycle, 0)
  /\ path = << >>
  /\ pathIndex = 0
  /\ dir = "NONE"
  /\ branch = "none"
  /\ verdict = NoVerdict
  /\ IdleCalls
  /\ IdleOthers

\* the page's effect on a new snapshot: update, getNextDirection, setDirection
AIStep ==
  /\ gameStatus = "RUNNING"
  /\ pc = "decide"
  /\ \E o \in Hamiltonian_getNextDirection(
                snake, boardSize, snake, food, obstacles, cycle,
                HeadCycleIndex(snake, cycle, currentCycleIndex), shortcutThreshold) :
       /\ dir' = o.dir
       /\ path' = o.path
       /\ currentCycleIndex' = o.index
       /\ branch' = o.branch
       /\ nextDirection' = setDirection(o.dir, nextDirection)
  /\ pc' = "move"
  /\ lastCall' = "getNextDirection"
  /\ calls' = 1
  /\ UNCHANGED <<snapshotVars, weight, route, strategy, algorithm, shortcutThreshold,
                 pathIndex, cycle, verdict, gameStatus, direction, score, otherVars>>

\* moveSnake without its check for collisions with self
Collides_NoSelf(head, n, sn, obs) ==
  \/ head.x < 0 \/ head.y < 0 \/ head.x >= n \/ head.y >= n
  \/ head \in obs

\* the new head of moveSnake runs into a wall, a segment or an obstacle
Collides(head, n, sn, obs) ==
  \/ head.x < 0 \/ head.y < 0 \/ head.x >= n \/ head.y >= n
  \/ \E i \in 1..Len(sn) : sn[i] = head
  \/ head \in obs

\* moveSnake, with eatFood and gameOver: what the call leaves in the store
moveSnake ==
  LET head == Step(snake[1], nextDirection)
  IN IF Collides(head, boardSize, snake, obstacles)
     THEN /\ gameStatus' = "GAME_OVER"
          /\ UNCHANGED <<snake, food, score, direction>>
     ELSE /\ direction' = nextDirection
          /\ gameStatus' = gameStatus
          /\ IF head = food
             THEN /\ snake' = << head >> \o snake
                  /\ food' \in getRandomPosition(
                                 0, boardSize,
                                 { snake[i] : i \in 1..Len(snake) } \cup obstacles)
                  /\ score' = score + 10
             ELSE /\ snake' = << head >> \o SubSeq(snake, 1, Len(snake) - 1)
                  /\ UNCHANGED <<food, score>>

\* the interval timer's call of moveSnake
MoveSnake ==
  /\ gameStatus = "RUNNING"
  /\ pc = "move"
  /\ pc' = "decide"
  /\ moveSnake
  /\ UNCHANGED <<boardSize, obstacles, weight, route, strategyVars, nextDirection,
                 callVars, otherVars>>

NextGame == AIStep \/ MoveSnake

\* the effect's turn: a step of the running game from "decide" to "move".
\* Every such step is an AIStep, and AIStep is enabled whenever it is the
\* effect's turn (getNextDirection always returns).
DecideTurn == gameStatus = "RUNNING" /\ pc = "decide" /\ pc' = "move"

\* the interval timer keeps calling moveSnake and the effect runs after every
\* change of the snapshot, for as long as the game is running
SpecGame == InitGame /\ [][NextGame]_vars /\ WF_pc(DecideTurn) /\ WF_vars(MoveSnake)

-----------------------------------------------------------------------------
(* SpecRecovery: HamiltonianAlgorithm after an update that hands over      *)
(* fewer obstacles than initialize did: the cycle is the one initialize    *)
(* built, and the head can stand on a cell it leaves out                   *)

InitRecovery ==
  /\ boardSize = BoardSide
  /\ obstacles \in {CornerBox, Wall}
  /\ snake \in Snakes(1, boardSize, obstacles)
  /\ food = Pos(boardSize - 1, boardSize - 1)
  /\ weight = 1
  /\ pc = "new"
  /\ route = Null
  /\ strategy = "HamiltonianAlgorithm"
  /\ algorithm = "hamiltonian"
  /\ shortcutThreshold = Hundredths(33)
  /\ path = << >>
  /\ pathIndex = 0
  /\ cycle = << >>
  /\ currentCycleIndex = 0
  /\ dir = "NONE"
  /\ branch = "none"
  /\ verdict = NoVerdict
  /\ IdleGame
  /\ IdleCalls
  /\ IdleOthers

\* update(snake, food, obstacles) with some of the obstacles gone: update
\* stores the obstacle array and keeps the cycle
UpdateCleared ==
  /\ pc = "ready"
  /\ lastCall = "initialize"
  /\ \E obs \in (SUBSET obstacles) \ {obstacles} :
       \E sn \in Snakes(MaxSnakeLen, boardSize, obs) :
         \E fd \in Foods(boardSize, obs) :
           /\ obstacles' = obs
           /\ snake' = sn
           /\ food' = fd
           /\ update(sn, fd)
  /\ lastCall' = "update"
  /\ calls' = 0
  /\ UNCHANGED <<boardSize, weight, pc, route, strategy, algorithm, shortcutThreshold,
                 cycle, dir, branch, verdict, gameVars, otherVars>>

NextRecovery == Initialize \/ UpdateCleared \/ GetNextDirection

SpecRecovery == InitRecovery /\ [][NextRecovery]_vars

-----------------------------------------------------------------------------
(* SpecStore: the game store under a player: startGame, any setDirection   *)
(* calls between two ticks, and the interval timer's moveSnake             *)

\* the cell of the one-segment snake of startGame: (5,5) on the boards of
\* side 10 and more of the settings page, (1,1) on the board of side BoardSide
StartCell == Pos(1, 1)

\* difficultySettings[difficulty].obstacleCount: 0, 5, 10 and 15 on the
\* boards of the settings page; 0..MaxObstacles on the board of side
\* BoardSide, whose inner square has room for the snake, the goal and two
\* obstacles
ObstacleCounts == 0..MaxObstacles

\* the for loop of startGame: the obstacle arrays (as sets) it can build
\* with count more obstacles, none on the snake, on initialFood or on an
\* obstacle already placed
RECURSIVE GenerateObstacles(_, _, _, _)
GenerateObstacles(count, n, placed, reserved) ==
  IF count = 0 THEN {placed}
  ELSE UNION { GenerateObstacles(count - 1, n, placed \cup {o}, reserved) :
                 o \in getRandomPosition(1, n - 1, reserved \cup placed) }

\* the store before startGame
InitStore ==
  /\ boardSize = BoardSide
  /\ snake = << StartCell >>
  /\ food = Pos(2, 2)
  /\ obstacles = {}
  /\ IdleGame
  /\ pc = "idle"
  /\ weight = 1
  /\ route = Null
  /\ IdleStrategy
  /\ IdleCalls
  /\ IdleOthers

\* startGame: the obstacles are generated around a goal drawn for that
\* purpose (initialFood); the goal that is stored is drawn again
StartGame ==
  /\ pc = "idle"
  /\ pc' = "started"
  /\ \E obstacleCount \in ObstacleCounts :
       IF obstacleCount > 0
       THEN \E initialFood \in getRandomPosition(1, boardSize - 1, {StartCell}) :
              obstacles' \in GenerateObstacles(obstacleCount, boardSize, {},
                                               {StartCell, initialFood})
       ELSE obstacles' = {}
  /\ snake' = << StartCell >>
  /\ food' \in getRandomPosition(1, boardSize - 1, {StartCell})
  /\ direction' = "RIGHT"
  /\ nextDirection' = "RIGHT"
  /\ score' = 0
  /\ gameStatus' = "RUNNING"
  /\ lastCall' = "startGame"
  /\ UNCHANGED <<boardSize, weight, route, strategyVars, calls, otherVars>>

\* a key press or a button of the controls: setDirection(d)
SetDirection ==
  /\ gameStatus = "RUNNING"
  /\ \E d \in Directions : nextDirection' = setDirection(d, nextDirection)
  /\ lastCall' = "setDirection"
  /\ UNCHANGED <<snapshotVars, weight, pc, route, strategyVars, gameStatus, direction,
                 score, calls, otherVars>>

\* the interval timer's call of moveSnake; the game is followed until the
\* snake has grown past MaxGrown segments
Tick ==
  /\ gameStatus = "RUNNING"
  /\ Len(snake) <= MaxGrown
  /\ pc' = "ticked"
  /\ moveSnake
  /\ lastCall' = "moveSnake"
  /\ UNCHANGED <<boardSize, obstacles, weight, route, strategyVars, nextDirection,
                 calls, otherVars>>

NextStore == StartGame \/ SetDirection \/ Tick

SpecStore == InitStore /\ [][NextStore]_vars

-----------------------------------------------------------------------------
(* Reference notions the claims about the searches are stated with *)

\* the cells a move may enter: in bounds, not an obstacle, not a snake
\* segment other than the tail
FreeCell(c, n, sn, obs) ==
  /\ c \in Cells(n)
  /\ c \notin obs
  /\ c \notin { sn[i] : i \in 1..(Len(sn) - 1) }

Adjacent(a, b) == abs(a.x - b.x) + abs(a.y - b.y) = 1

\* flood fill: the cells reachable from the cells of seen over free cells
RECURSIVE Flood(_, _, _, _)
Flood(seen, n, sn, obs) ==
  LET more == { c \in Cells(n) \ seen :
                  FreeCell(c, n, sn, obs) /\ \E d \in seen : Adjacent(c, d) }
  IN IF more = {} THEN seen ELSE Flood(seen \cup more, n, sn, obs)

RouteExists(start, goal, n, sn, obs) == goal \in Flood({start}, n, sn, obs)

\* the least number of steps from the frontier to goal, counted layer by
\* layer; only used when a route exists
RECURSIVE Layers(_, _, _, _, _, _, _)
Layers(frontier, seen, goal, steps, n, sn, obs) ==
  IF goal \in frontier THEN steps
  ELSE LET more == { c \in Cells(n) \ seen :
                       FreeCell(c, n, sn, obs) /\ \E d \in frontier : Adjacent(c, d) }
       IN Layers(more, seen \cup more, goal, steps + 1, n, sn, obs)

MinSteps(start, goal, n, sn, obs) == Layers({start}, {start}, goal, 0, n, sn, obs)

ShortestPathRan == pc \in {"astar", "bfs", "dijkstra"}

-----------------------------------------------------------------------------
(* Claims about the searches, checked under SpecPath *)

\* C3: every route returned by A*, BFS or Dijkstra contains only cells that
\* are inside the board, are not obstacles and are not occupied by a snake
\* segment other than the tail.
C3_RouteCellsAreFree ==
  (ShortestPathRan /\ ~IsNull(route)) =>
    \A i \in 1..Len(route.cells) :
       FreeCell(route.cells[i], boardSize, snake, obstacles)

\* a route of several cells was returned on a board with obstacles and a
\* snake that has a body
C3_Witness ==
  /\ ShortestPathRan
  /\ ~IsNull(route)
  /\ Len(route.cells) >= 3
  /\ obstacles # {}
  /\ Len(snake) >= 3

\* C4: A*, BFS and Dijkstra return null exactly when the flood fill from the
\* start over free cells does not reach the goal.
C4_NullIffUnreachable ==
  ShortestPathRan =>
    (IsNull(route) <=> ~RouteExists(snake[1], food, boardSize, snake, obstacles))

\* a search returned null for a goal that is itself a free cell
C4_Witness ==
  /\ ShortestPathRan
  /\ IsNull(route)
  /\ FreeCell(food, boardSize, snake, obstacles)

\* C5: with heuristicWeight = 0, whenever a route exists A* returns a route
\* as long as the route Dijkstra returns, and that length is the least
\* number of steps from start to goal.
C5_ZeroWeightAStarIsShortest ==
  (pc = "astar" /\ weight = 0
     /\ RouteExists(snake[1], food, boardSize, snake, obstacles)) =>
    /\ ~IsNull(route)
    /\ Len(route.cells) =
         Len(findPathDijkstra(snake[1], food, boardSize, snake, obstacles).cells)
    /\ Len(route.cells) = MinSteps(snake[1], food, boardSize, snake, obstacles)

\* A* with weight 0 returned a route that had to go around something
C5_Witness ==
  /\ pc = "astar"
  /\ weight = 0
  /\ ~IsNull(route)
  /\ Len(route.cells) > manhattanDistance(snake[1], food, 1)

\* The wall scenario of C6: a two-cell wall between head and goal
WallObstacles == {Pos(1, 1), Pos(1, 2)}
WallSnake     == << Pos(3, 0) >>
WallFood      == Pos(0, 2)

InWallScenario ==
  /\ boardSize = 4
  /\ obstacles = WallObstacles
  /\ snake = WallSnake
  /\ food = WallFood
  /\ weight = 1

\* C6: on the wall scenario Greedy returns a route strictly longer than the
\* routes BFS and A* (weight 1) return for the same start, goal and occupancy.
C6_GreedyLongerOnWall ==
  (InWallScenario /\ pc = "greedy") =>
    LET bfs   == findPathBFS(snake[1], food, boardSize, snake, obstacles)
        astar == findPathAStar(snake[1], food, boardSize, snake, obstacles, 1)
    IN /\ ~IsNull(route) /\ ~IsNull(bfs) /\ ~IsNull(astar)
       /\ Len(route.cells) > Len(bfs.cells)
       /\ Len(route.cells) > Len(astar.cells)

\* Greedy ran on the wall scenario
C6_Witness == InWallScenario /\ pc = "greedy" /\ ~IsNull(route)

\* the positive heuristic weights a run is compared with
OtherWeights == 1..(MaxWeight + 1)

\* C18: the heuristic weight affects A* only: on the same snapshot the routes
\* of BFS, Dijkstra and Greedy and the cell of the safe-move fallback are the
\* same for any two positive weights.
C18_WeightAffectsAStarOnly ==
  weight > 0 =>
    \A w \in OtherWeights :
      /\ pc = "bfs" => route = findPath("bfs", snake[1], food, boardSize, snake,
                                        obstacles, w, << >>, shortcutThreshold)
      /\ pc = "dijkstra" => route = findPath("dijkstra", snake[1], food, boardSize, snake,
                                             obstacles, w, << >>, shortcutThreshold)
      /\ pc = "greedy" => route = findPathGreedy(snake[1], food, boardSize, snake,
                                                 obstacles, w)
      /\ pc = "safemove" => route = AISnake_findSafeMove("bfs", boardSize, snake,
                                                         obstacles, w, << >>)

C18_Witness ==
  /\ pc = "greedy"
  /\ weight > 0
  /\ Len(snake) >= 2
  /\ obstacles # {}
  /\ ~IsNull(route)
  /\ Len(route.cells) >= 3

-----------------------------------------------------------------------------
(* Claims about the strategies, checked under Spec *)

CycleBuilt ==
  /\ pc = "ready"
  /\ algorithm = "hamiltonian"
  /\ strategy \in {"HamiltonianAlgorithm", "AISnake"}

\* C1: for an even boardSize and no obstacles, the cycle built at
\* initialization has length boardSize*boardSize, contains every board cell
\* exactly once, and every pair of consecutive cells, the last and the first
\* included, is 4-adjacent.
C1_CycleIsHamiltonian ==
  (CycleBuilt /\ boardSize % 2 = 0 /\ obstacles = {}) =>
    /\ Len(cycle) = boardSize * boardSize
    /\ \A c \in Cells(boardSize) :
         Cardinality({ i \in 1..Len(cycle) : cycle[i] = c }) = 1
    /\ \A i \in 1..Len(cycle) : Adjacent(cycle[i], cycle[(i % Len(cycle)) + 1])

\* C2: for every snapshot with a snake of length >= 1, after any sequence of
\* update and getNextDirection calls, getNextDirection of AStarAlgorithm, of
\* HamiltonianAlgorithm and of AISnake returns one of UP, DOWN, LEFT, RIGHT
\* (no step of the call reads a field of a missing value, so none throws).
C2_AlwaysReturnsADirection ==
  (pc = "ready" /\ branch # "none") => dir \in Directions

\* a direction was returned for a head with no valid neighbour
C2_Witness ==
  /\ pc = "ready"
  /\ branch # "none"
  /\ dir \in Directions
  /\ Len(snake) = 1
  /\ Len(getNeighbors(snake[1], boardSize, snake, obstacles)) = 0

\* the head has no valid neighbour
BoxedIn == Len(getNeighbors(snake[1], boardSize, snake, obstacles)) = 0

\* C12: after an update with a snapshot whose head has no valid neighbour,
\* findPath(head, goal) of AStarAlgorithm and of AISnake is null for every
\* goal other than the head, and the route the strategy reports (getPath())
\* is empty, whatever route it held before.
C12_BoxedHeadReportsNoPath ==
  (pc = "ready" /\ lastCall = "update" /\ strategy \in {"AStarAlgorithm", "AISnake"}
     /\ BoxedIn) =>
    /\ \A goal \in Cells(boardSize) \ {snake[1]} : IsNull(StrategyFindPath(snake[1], goal))
    /\ path = << >>

\* the strategies that follow a route computed by A*
FollowsAStarPath ==
  /\ strategy \in {"AStarAlgorithm", "AISnake"}
  /\ algorithm = "astar"

\* C14: on a strategy that follows an A* route, update resets the route index
\* to 0, and the k-th getNextDirection call after the update, while route
\* cells remain, leaves the index at k and returns the direction from the
\* head toward the k-th route cell (one step per call, no cell skipped).
C14_OneStepPerCall ==
  (pc = "ready" /\ FollowsAStarPath) =>
    /\ lastCall = "update" => pathIndex = 0
    /\ (lastCall = "getNextDirection" /\ calls < MaxCalls /\ calls <= Len(path)) =>
         /\ pathIndex = calls
         /\ dir = getDirectionFromPositions(snake[1], path[calls])

\* the goal is a valid cell next to the head
GoalNextToHead ==
  /\ isValidPosition(food, boardSize, snake, obstacles)
  /\ abs(food.x - snake[1].x) + abs(food.y - snake[1].y) = 1

\* the direction of the step from cell a to the cell b next to it
StepDirection(a, b) ==
  CASE b = Pos(a.x + 1, a.y) -> "RIGHT"
    [] b = Pos(a.x - 1, a.y) -> "LEFT"
    [] b = Pos(a.x, a.y + 1) -> "DOWN"
    [] b = Pos(a.x, a.y - 1) -> "UP"

\* C19: when the goal is a valid cell next to the head, findPath of A* returns
\* the one-cell route [goal], and the first getNextDirection after the
\* snapshot was handed over returns the direction from the head to the goal;
\* on the board of side 10 with the snake [(5,5)] and the goal (5,6) the route
\* is [(5,6)] and the direction DOWN.
C19_AdjacentGoalIsOneStep ==
  /\ (pc = "ready" /\ FollowsAStarPath /\ GoalNextToHead) =>
       /\ StrategyFindPath(snake[1], food) = Route(<< food >>)
       /\ (lastCall = "getNextDirection" /\ calls = 1) =>
            dir = StepDirection(snake[1], food)
  /\ AStarAlgorithm_findPath(Pos(5, 5), Pos(5, 6), 10, << Pos(5, 5) >>, {}, 1)
       = Route(<< Pos(5, 6) >>)
  /\ \A o \in AStarAlgorithm_getNextDirection(<< Pos(5, 5) >>, 10, {}, << Pos(5, 6) >>, 0) :
       o.dir = "DOWN"

C19_Witness ==
  /\ pc = "ready"
  /\ strategy = "AStarAlgorithm"
  /\ GoalNextToHead
  /\ Len(snake) >= 2
  /\ obstacles # {}
  /\ lastCall = "getNextDirection"
  /\ calls = 1
  /\ dir = "UP"

\* the direction of the vector from cell b to cell a: RIGHT or LEFT by the
\* sign of dx, else DOWN or UP by the sign of dy
VectorDirection(a, b) ==
  IF a.x - b.x > 0 THEN "RIGHT"
  ELSE IF a.x - b.x < 0 THEN "LEFT"
  ELSE IF a.y - b.y > 0 THEN "DOWN"
  ELSE IF a.y - b.y < 0 THEN "UP"
  ELSE "RIGHT"

\* C20: when the head has no valid neighbour, getRandomDirection of
\* PathfindingUtils and of AISnake returns the direction of the vector head
\* minus second segment wherever the two segments lie, and RIGHT for a snake
\* of a single segment.
C20_BoxedHeadKeepsHeading ==
  (/\ pc = "ready"
   /\ strategy \in {"AStarAlgorithm", "AISnake"}
   /\ lastCall = "getNextDirection"
   /\ branch = "random"
   /\ BoxedIn) =>
    dir = IF Len(snake) >= 2 THEN VectorDirection(snake[1], snake[2]) ELSE "RIGHT"

\* the least Manhattan distance from cell c to a segment other than the head
Farness(c) ==
  LET ds == { abs(c.x - snake[i].x) + abs(c.y - snake[i].y) : i \in 2..Len(snake) }
  IN CHOOSE d \in ds : \A e \in ds : d <= e

\* the valid neighbour of the head that is farthest from the body, the first
\* such in the order UP, DOWN, LEFT, RIGHT; with no body, the first neighbour
FarthestNeighbor ==
  LET nbrs == SelectSeq(<< Step(snake[1], "UP"), Step(snake[1], "DOWN"),
                           Step(snake[1], "LEFT"), Step(snake[1], "RIGHT") >>,
                        LAMBDA c : isValidPosition(c, boardSize, snake, obstacles))
  IN IF Len(snake) < 2 THEN nbrs[1]
     ELSE nbrs[CHOOSE k \in 1..Len(nbrs) :
                 /\ \A j \in 1..Len(nbrs) : Farness(nbrs[j]) <= Farness(nbrs[k])
                 /\ \A j \in 1..(k - 1) : Farness(nbrs[j]) < Farness(nbrs[k])]

\* findPath(head, food) found no route
NoRouteToFood ==
  LET found == StrategyFindPath(snake[1], food)
  IN IsNull(found) \/ Len(found.cells) = 0

\* C25: when findPath returns null or an empty route and the head has valid
\* neighbours, the fallback move is the valid neighbour that maximizes the
\* least Manhattan distance to the segments other than the head, the first
\* such neighbour in the order UP, DOWN, LEFT, RIGHT.
C25_FallbackMovesAwayFromBody ==
  (/\ pc = "ready"
   /\ strategy \in {"AStarAlgorithm", "AISnake"}
   /\ lastCall \in {"initialize", "update"}
   /\ NoRouteToFood
   /\ ~BoxedIn) =>
    path = << FarthestNeighbor >>

C25_Witness ==
  /\ pc = "ready"
  /\ strategy = "AStarAlgorithm"
  /\ lastCall = "update"
  /\ NoRouteToFood
  /\ Len(snake) >= 3
  /\ Len(getNeighbors(snake[1], boardSize, snake, obstacles)) >= 2
  /\ path = << FarthestNeighbor >>
  /\ path # << getNeighbors(snake[1], boardSize, snake, obstacles)[1] >>

-----------------------------------------------------------------------------
(* Claim about repeated updates, checked under SpecUpdate *)

\* C13: a second update in a row with the same snake, goal and obstacles
\* changes nothing: the stored snapshot, the route, the route index, the
\* cycle and the cycle index are those the first update left, for
\* AStarAlgorithm, HamiltonianAlgorithm and AISnake.
C13_UpdateIsIdempotent ==
  [][lastCall' = "update again" =>
       UNCHANGED <<snapshotVars, algorithm, path, pathIndex, cycle, currentCycleIndex>>]_vars

\* a repeated update of a strategy that holds a route of several cells
C13_Witness ==
  /\ lastCall = "update again"
  /\ Len(path) >= 2
  /\ Len(snake) >= 2

-----------------------------------------------------------------------------
(* Claims about the factory, checked under SpecFactory *)

\* the route the search named alg returns from the head to the goal
NamedRoute(alg) ==
  findPath(alg, snake[1], food, boardSize, snake, obstacles, weight, cycle,
           shortcutThreshold)

\* C16: the factory constructs the strategy of the requested name: for astar,
\* bfs, greedy and dijkstra a strategy whose findPath returns the route of the
\* search of that name, for hamiltonian the cycle follower, and for any other
\* name A*.
C16_FactoryBuildsNamedStrategy ==
  /\ (pc # "config" /\ algorithm = "hamiltonian") => strategy = "HamiltonianAlgorithm"
  /\ (pc # "config" /\ algorithm \notin Algorithms) => strategy = "AStarAlgorithm"
  /\ (pc = "asked" /\ algorithm \in {"astar", "bfs", "greedy", "dijkstra"}) =>
       route = NamedRoute(algorithm)

\* the percentage the factory was given, 33 when absent
Percent == Given(config.shortcutThreshold, 33)

\* C17: a cycle follower built by the factory with shortcutThreshold p (33
\* when absent) has the shortcut distance window floor(boardSize * p / 100).
C17_FactoryKeepsPercentage ==
  (pc # "config" /\ strategy = "HamiltonianAlgorithm") =>
    maxShortcutDistance(boardSize, shortcutThreshold) = (boardSize * Percent) \div 100

-----------------------------------------------------------------------------
(* Claim about the copies a strategy keeps, checked under SpecAlias *)

\* C15: once initialize has returned, whatever the driver writes to the snake
\* array, the obstacle array, the goal object or the cell objects it handed
\* over, the snapshot the strategy holds is the one it was given, and so is
\* every decision it takes afterwards.
C15_SnapshotIsPrivate ==
  stored # NoRefs =>
    /\ View(stored) = [snake |-> snake, food |-> food, obstacles |-> obstacles]
    /\ pc = "decided" =>
         route = Decide([snake |-> snake, food |-> food, obstacles |-> obstacles])

-----------------------------------------------------------------------------
(* Claims about the shortcut checks, checked under SpecShortcut *)

HeadToFood == abs(snake[1].x - food.x) + abs(snake[1].y - food.y)

Window == maxShortcutDistance(boardSize, shortcutThreshold)

AboveSeventyPercent == 10 * Len(snake) > 7 * boardSize * boardSize

\* C8: whenever the snake length divided by boardSize*boardSize exceeds 70%,
\* isShortcutSafe returns false, whatever the head, goal, obstacles and
\* shortcutThreshold, and getNextDirection takes no shortcut step.
C8_NoShortcutAboveSeventyPercent ==
  (pc = "ready" /\ AboveSeventyPercent) =>
    /\ verdict.checked => ~verdict.isShortcutSafe
    /\ branch # "shortcut"

\* above 70%, both calls were made in a snapshot where every other test of
\* isShortcutSafe passes: the goal is inside the window, a fifth of the board
\* stays free and the tail is reachable
C8_Witness ==
  /\ pc = "ready"
  /\ AboveSeventyPercent
  /\ verdict.checked
  /\ ~verdict.isShortcutSafe
  /\ branch \in {"cycle", "fallback"}
  /\ HeadToFood > 0
  /\ (HeadToFood <= Window \/ Window = 0)
  /\ 5 * (boardSize * boardSize - (Len(snake) + 1) - Cardinality(obstacles))
       >= boardSize * boardSize
  /\ verdict.canReachTail

\* C9: for a snake of length >= 2, canReachTailAfterShortcut(goal) returns
\* false whenever, in the snake that results from eating at the goal (the
\* goal cell put in front of the whole snake), no 4-connected route of free
\* cells leads from the new head to the new tail; and isShortcutSafe returns
\* true only when such a route exists.
C9_TailCheckMatchesGrownSnake ==
  (verdict.checked /\ Len(snake) >= 2
     /\ food \notin { snake[i] : i \in 1..Len(snake) }) =>
    LET grown  == << food >> \o snake
        routed == RouteExists(grown[1], grown[Len(grown)], boardSize, grown, obstacles)
    IN /\ ~routed => ~verdict.canReachTail
       /\ verdict.isShortcutSafe => routed

CycleDistance(cyc, a, b) == (CycleGet(cyc, b) - CycleGet(cyc, a) + Len(cyc)) % Len(cyc)

\* a body segment lies on the cycle strictly between the head and the goal,
\* going forward from the head
SegmentInTheWay ==
  \E i \in 2..Len(snake) :
     /\ CycleHas(cycle, snake[i])
     /\ CycleDistance(cycle, snake[1], snake[i]) > 0
     /\ CycleDistance(cycle, snake[1], snake[i]) < CycleDistance(cycle, snake[1], food)

\* C11: the cycle follower takes a shortcut step only when no body segment
\* has a cycle index strictly between the head's and the goal's, going
\* forward along the cycle modulo its length.
C11_NoSegmentBetweenHeadAndGoal ==
  (pc = "ready" /\ branch = "shortcut") => ~SegmentInTheWay

\* C23: when the head is on the cycle and no shortcut is taken,
\* getNextDirection advances along the cycle to a cell that is a safe move:
\* if one of the next 5 cycle cells is safe, the cell the head enters by the
\* direction returned is inside the board, holds no obstacle and no segment
\* other than the tail.
C23_CycleStepIsSafe ==
  (pc = "ready" /\ strategy = "HamiltonianAlgorithm" /\ branch = "cycle") =>
    isCellSafeForMove(Step(snake[1], dir), snake, boardSize, obstacles)

-----------------------------------------------------------------------------
(* Claim about the recovery of the cycle follower, checked under           *)
(* SpecRecovery                                                            *)

\* the head is on no cell of the cycle, or there is no cycle
OffCycle == Len(cycle) = 0 \/ ~CycleHas(cycle, snake[1])

\* the neighbours of the head that are safe moves
SafeNeighbors ==
  { c \in Cells(boardSize) :
      /\ abs(c.x - snake[1].x) + abs(c.y - snake[1].y) = 1
      /\ isCellSafeForMove(c, snake, boardSize, obstacles) }

\* C24: when the head is not on the cycle, or the cycle is empty,
\* getNextDirection falls back to the first step of the A* route, then to a
\* random safe neighbour, then to a forced move: whenever the head has a
\* safe neighbour the direction returned leads into a safe neighbour, the
\* first cell of the A* route when there is one.
C24_RecoveryPrefersSafeMoves ==
  (/\ pc = "ready"
   /\ strategy = "HamiltonianAlgorithm"
   /\ lastCall = "getNextDirection"
   /\ OffCycle
   /\ SafeNeighbors # {}) =>
    /\ branch = "fallback"
    /\ Step(snake[1], dir) \in SafeNeighbors
    /\ LET aStar == AStarAlgorithm_findPath(snake[1], food, boardSize, snake, obstacles, 1)
       IN (~IsNull(aStar) /\ Len(aStar.cells) > 0) => Step(snake[1], dir) = aStar.cells[1]

C24_Witness ==
  /\ pc = "ready"
  /\ lastCall = "getNextDirection"
  /\ OffCycle
  /\ Len(snake) >= 2
  /\ SafeNeighbors # {}
  /\ IsNull(AStarAlgorithm_findPath(snake[1], food, boardSize, snake, obstacles, 1))
  /\ branch = "fallback"

-----------------------------------------------------------------------------
(* Claim about the driven game, checked under SpecGame *)

\* C7: on an obstacle-free board of even size, a snake driven every tick by
\* the Cycle-Follower never ends the game by hitting a wall or its own body,
\* and its head eventually visits every board cell, wherever the food is
\* placed.
C7_NeverDiesAndCoversTheBoard ==
  /\ [](gameStatus # "GAME_OVER")
  /\ \A c \in Cells(BoardSide) : <>(snake[1] = c)

-----------------------------------------------------------------------------
(* Claims about the game store, checked under SpecStore *)

\* C21: in every game state from startGame on, the food lies on no snake
\* segment and on no obstacle, and the obstacles startGame generates lie
\* neither on the initial snake nor on the initial food.
C21_FoodIsOnAFreeCell ==
  pc # "idle" =>
    /\ \A i \in 1..Len(snake) : snake[i] # food
    /\ food \notin obstacles
    /\ pc = "started" => (StartCell \notin obstacles /\ food \notin obstacles)

\* the snake has a segment, no cell twice, and every segment on a board cell
\* that holds no obstacle
SnakeIsSound ==
  /\ Len(snake) >= 1
  /\ \A i, j \in 1..Len(snake) : i # j => snake[i] # snake[j]
  /\ \A i \in 1..Len(snake) : snake[i] \in Cells(boardSize) \ obstacles

\* the snake that a step to cell head would leave is not sound: head is off
\* the board, on an obstacle, or on a segment that stays where it is
WouldBreak(head) ==
  \/ head \notin Cells(boardSize)
  \/ head \in obstacles
  \/ \E i \in 1..(IF head = food THEN Len(snake) ELSE Len(snake) - 1) : snake[i] = head

Opposite(d) ==
  CASE d = "UP"    -> "DOWN"
    [] d = "DOWN"  -> "UP"
    [] d = "LEFT"  -> "RIGHT"
    [] d = "RIGHT" -> "LEFT"

\* C26: the store prevents 180-degree turns: whatever setDirection calls are
\* made between two ticks, the move that moveSnake makes next is never in
\* the direction opposite to the move before.
C26_NoHalfTurn ==
  (/\ gameStatus = "RUNNING"
   /\ pc = "ticked"
   /\ ~Collides(Step(snake[1], nextDirection), boardSize, snake, obstacles)) =>
    nextDirection # Opposite(direction)

\* C27: the rule that leaves the tail out of the validity test agrees with
\* the store: when the head is moved into a cell that isValidPosition
\* accepts for the current snapshot (on the board, no obstacle, no segment
\* other than the tail), moveSnake does not end the game on that move.
C27_ValidCellIsSurvivable ==
  (lastCall = "moveSnake" /\ gameStatus = "GAME_OVER") =>
    ~isValidPosition(Step(snake[1], nextDirection), boardSize, snake, obstacles)


-----------------------------------------------------------------------------
(* The cells each search takes out of its open set, in the order taken *)

RECURSIVE AStarExtracted(_, _, _, _, _, _, _, _)
AStarExtracted(openList, closedList, goal, n, sn, obs, w, taken) ==
  IF openList = << >> THEN taken
  ELSE LET sorted  == SortByKey(openList, "f")
           current == Head(sorted)
           closed  == closedList \cup {current.pos}
       IN IF current.pos = goal THEN Append(taken, current.pos)
          ELSE AStarExtracted(AStarRelax(Tail(sorted), closed, current,
                                         getNeighbors(current.pos, n, sn, obs), goal, w),
                              closed, goal, n, sn, obs, w, Append(taken, current.pos))

RECURSIVE BFSExtracted(_, _, _, _, _, _, _)
BFSExtracted(queue, visited, goal, n, sn, obs, taken) ==
  IF queue = << >> THEN taken
  ELSE LET current == Head(queue)
       IN IF current.pos = goal THEN Append(taken, current.pos)
          ELSE LET qv == BFSVisit([queue |-> Tail(queue), visited |-> visited],
                                  current, getNeighbors(current.pos, n, sn, obs))
               IN BFSExtracted(qv.queue, qv.visited, goal, n, sn, obs,
                               Append(taken, current.pos))

RECURSIVE GreedyExtracted(_, _, _, _, _, _, _, _)
GreedyExtracted(openList, visited, goal, n, sn, obs, w, taken) ==
  IF openList = << >> THEN taken
  ELSE LET sorted  == SortByKey(openList, "h")
           current == Head(sorted)
           seen    == visited \cup {current.pos}
       IN IF current.pos = goal THEN Append(taken, current.pos)
          ELSE GreedyExtracted(GreedyPush(Tail(sorted), seen, current,
                                          getNeighbors(current.pos, n, sn, obs), goal, w),
                               seen, goal, n, sn, obs, w, Append(taken, current.pos))

RECURSIVE DijkstraExtracted(_, _, _, _, _, _, _)
DijkstraExtracted(openList, closedList, goal, n, sn, obs, taken) ==
  IF openList = << >> THEN taken
  ELSE LET sorted  == SortByKey(openList, "g")
           current == Head(sorted)
           closed  == closedList \cup {current.pos}
       IN IF current.pos = goal THEN Append(taken, current.pos)
          ELSE DijkstraExtracted(DijkstraRelax(Tail(sorted), closed, current,
                                               getNeighbors(current.pos, n, sn, obs)),
                                 closed, goal, n, sn, obs, Append(taken, current.pos))

SearchRan == pc \in {"astar", "bfs", "greedy", "dijkstra"}

\* the extractions of the search that produced route
Extracted ==
  CASE pc = "astar" ->
         AStarExtracted(<< Node(snake[1], 0, heuristic(snake[1], food, weight),
                                heuristic(snake[1], food, weight), << >>) >>,
                        {}, food, boardSize, snake, obstacles, weight, << >>)
    [] pc = "bfs" ->
         BFSExtracted(<< Node(snake[1], 0, 0, 0, << >>) >>, {snake[1]}, food,
                      boardSize, snake, obstacles, << >>)
    [] pc = "greedy" ->
         GreedyExtracted(<< Node(snake[1], 0, heuristic(snake[1], food, weight),
                                 heuristic(snake[1], food, weight), << >>) >>,
                         {}, food, boardSize, snake, obstacles, weight, << >>)
    [] pc = "dijkstra" ->
         DijkstraExtracted(<< Node(snake[1], 0, 0, 0, << >>) >>, {}, food,
                           boardSize, snake, obstacles, << >>)
    [] OTHER -> << >>

NoCellTwice(cells) ==
  \A i, j \in 1..Len(cells) : cells[i] = cells[j] => i = j

\* the trace belongs to the search: a route was returned exactly when the
\* last cell taken is the goal
ExtractedMatchesRoute ==
  SearchRan =>
    (~IsNull(route) <=> (Extracted # << >> /\ Extracted[Len(Extracted)] = food))

-----------------------------------------------------------------------------
(* Claim about the work of the searches, checked under SpecPath *)

\* C28: every search (A*, BFS, Dijkstra, Greedy) takes each cell out of its
\* open set at most once, and so takes at most boardSize * boardSize cells
\* before it returns a route or null.
C28_EachCellExtractedOnce ==
  SearchRan =>
    /\ NoCellTwice(Extracted)
    /\ Len(Extracted) <= boardSize * boardSize

\* the same without Greedy: the three searches that keep one node per cell
C28_ShortestSearchesExtractOnce ==
  ShortestPathRan =>
    /\ NoCellTwice(Extracted)
    /\ Len(Extracted) <= boardSize * boardSize

-----------------------------------------------------------------------------
(* Claim about A* with the default weight, checked under SpecPath *)

\* C29: with heuristicWeight = 1 every route A* returns has the least
\* possible number of steps from start to goal over free cells, the same
\* number as the route BFS returns.
C29_DefaultAStarIsShortest ==
  (pc = "astar" /\ weight = 1 /\ ~IsNull(route)) =>
    /\ Len(route.cells) = MinSteps(snake[1], food, boardSize, snake, obstacles)
    /\ Len(route.cells) =
         Len(findPathBFS(snake[1], food, boardSize, snake, obstacles).cells)

\* A* with weight 1 returned a route that leaves the straight way to the
\* goal, around obstacles and past the snake's own body
C29_Witness ==
  /\ pc = "astar"
  /\ weight = 1
  /\ ~IsNull(route)
  /\ Len(route.cells) > abs(snake[1].x - food.x) + abs(snake[1].y - food.y)
  /\ obstacles # {}
  /\ Len(snake) >= 2

-----------------------------------------------------------------------------
(* Claim about the direction the AI page hands to the store, checked under *)
(* SpecGame                                                                *)

\* C30: in AI play the direction getNextDirection returned for a snapshot is
\* the direction of the next move: after update, getNextDirection and
\* setDirection, a moveSnake that leaves the game running has moved the head
\* one cell in the returned direction, whatever the length of the snake.
C30_ReturnedDirectionIsMoved ==
  (pc = "decide" /\ lastCall = "getNextDirection" /\ gameStatus = "RUNNING") =>
    direction = dir
=============================================================================
